---- MODULE Spec2Model ----
(***************************************************************************)
(* svelte-specma: reactive validation stores.                              *)
(*                                                                         *)
(* The first part models predSpecable (the predicate validator node): its  *)
(* input stores (active, value, submitting), the derived store that runs   *)
(* one evaluation cycle per input change, the currPromise race guard, and  *)
(* the async functions activate() and submit(), one step per await.        *)
(* The second part models collSpecable (the collection validator node)     *)
(* over predicate nodes: its value and status aggregators, set, activate   *)
(* and submit.                                                             *)
(*                                                                         *)
(* Subscribers stay: a node that got its subscriber keeps it.              *)
(***************************************************************************)
EXTENDS Integers, Sequences, FiniteSets, TLC

\* Bound: asynchronous validations of one node that are outstanding at once.
MaxTok == 2

----------------------------------------------------------------------------
(* Values.  A predicate node holds a scalar: undefined, null, "" (the      *)
(* three "missing" values), "a" or "b".  The own predicate node of a       *)
(* collection holds a collection value: undefined (UndefColl) or an object *)
(* (a function from the keys it has to scalars).                           *)

Undef == "undefined"
Null == "null"
Empty == ""
Values == {Undef, Null, Empty, "a", "b"}

Keys == {"x", "y"}
UndefColl == [undefined |-> "undefined"]

\* The falsy `false` that interpretState publishes as `error` when the
\* result is not invalid; reasons are tuples, so the two never collide.
NoError == <<>>

Toks == 1 .. MaxTok

\* Bound: the same, for a child of the collection node.
MaxKidTok == 1

KidToks == 1 .. MaxKidTok

----------------------------------------------------------------------------
(* Pure functions of predSpecable.  `n` is a node (below); n.coll tells    *)
(* that its value is a collection value.                                   *)

isUndefined(n, x) == IF n.coll THEN x = UndefColl ELSE x = Undef

isMissing(n, x) == IF n.coll THEN x = UndefColl ELSE x \in {Undef, Null, Empty}

\* fast-deep-equal, as writableByValue imports it
fastEquals(a, b) == a = b

removeUndefined(x) ==
    IF x = UndefColl THEN x
    ELSE [k \in {j \in DOMAIN x : x[j] # Undef} |-> x[k]]

\* equals of util.js: collections are compared without their undefined entries
equals(n, a, b) ==
    IF n.coll THEN removeUndefined(a) = removeUndefined(b) ELSE a = b

defaultChangePred(n, a, b) == ~equals(n, a, b)

\* A user supplied changePred: it compares case-insensitively, so that it
\* reports "a" and "b" (standing for two spellings) as not changed.
customChangePred(n, a, b) == ~(equals(n, a, b) \/ {a, b} = {"a", "b"})

changePred(n, a, b) ==
    IF n.custom THEN customChangePred(n, a, b) ELSE defaultChangePred(n, a, b)

\* The outcome of a predicate: valid, or invalid with a reason.  `user`
\* tells whether the user predicate was invoked to obtain it.
Ok(user) == [valid |-> TRUE, reason |-> NoError, user |-> user]
Fail(reason, user) == [valid |-> FALSE, reason |-> reason, user |-> user]

reqSpec(n, x) ==
    IF ~isMissing(n, x) THEN Ok(FALSE) ELSE Fail(<<"isRequired">>, FALSE)

\* The user predicates of the model.  On a scalar: "a" and "" are valid.
\* On a collection (a cross-field rule): x and y must not both be "b".
scalarPred(x) ==
    IF x \in {"a", Empty} THEN Ok(TRUE) ELSE Fail(<<"invalid", x>>, TRUE)

collPred(x) ==
    IF x # UndefColl /\ DOMAIN x = Keys /\ x["x"] = "b" /\ x["y"] = "b"
    THEN Fail(<<"both b">>, TRUE) ELSE Ok(TRUE)

pred(n, x) == IF n.coll THEN collPred(x) ELSE scalarPred(x)

\* and(reqSpec, pred): short-circuiting conjunction.
and(n, x) == IF reqSpec(n, x).valid THEN pred(n, x) ELSE reqSpec(n, x)

\* Variant: the required check is left out of the node's own spec.
ownSpecNoRequired(n, x) == pred(n, x)

ownSpec(n, x) == IF n.required THEN and(n, x) ELSE pred(n, x)

\* Results: valid is "true", "false" or "null" (pending, with a promise).
ALWAYS_VALID == [valid |-> "true", reason |-> NoError]
Terminal(o) == [valid |-> IF o.valid THEN "true" ELSE "false", reason |-> o.reason]
Pending == [valid |-> "null", reason |-> NoError]

\* Variant: the answer is the one for the node's initial value.
validatePredInitial(n, x) ==
    LET o == ownSpec(n, n.initialValue)
    IN  IF o.user /\ n.isAsync THEN Pending ELSE Terminal(o)

\* validatePred(ownSpec, value): an asynchronous user predicate answers
\* with a promise; the built-in required check answers at once.
validatePred(n, x) ==
    LET o == ownSpec(n, x)
    IN  IF o.user /\ n.isAsync THEN Pending ELSE Terminal(o)

\* What the promise of validatePred(ownSpec, x) resolves to.
resolvedResult(n, x) == Terminal(ownSpec(n, x))

\* Variant: valid is everything but a firm failure.
interpretStateNotFailed(n, args, result) ==
    LET changed == changePred(n, args.value, args.initialValue)
    IN  [active |-> args.active,
         changed |-> changed,
         error |-> IF result.valid = "false" THEN result.reason ELSE NoError,
         initialValue |-> args.initialValue,
         submitting |-> args.submitting,
         valid |-> result.valid # "false",
         validating |-> result.valid = "null",
         value |-> IF changed THEN args.value ELSE args.initialValue]

interpretState(n, args, result) ==
    LET changed == changePred(n, args.value, args.initialValue)
    IN  [active |-> args.active,
         changed |-> changed,
         error |-> IF result.valid = "false" THEN result.reason ELSE NoError,
         initialValue |-> args.initialValue,
         submitting |-> args.submitting,
         valid |-> result.valid = "true",
         validating |-> result.valid = "null",
         value |-> IF changed THEN args.value ELSE args.initialValue]

----------------------------------------------------------------------------
(* Promises.  A settled promise is known by the `valid` it resolved to; a  *)
(* pending one by the token of the validation it waits for.                *)

NoPromise == [kind |-> "none", valid |-> FALSE, tok |-> 0]
SyncPromise(valid) == [kind |-> "sync", valid |-> valid, tok |-> 0]
AsyncPromise(t) == [kind |-> "async", valid |-> FALSE, tok |-> t]

\* A token keeps the value its pending validation runs on.
FreeTok == [st |-> "free", v |-> Undef]

\* The derived store's value before its first evaluation cycle.
NoState == [none |-> TRUE]
NoArgs == [none |-> TRUE]

----------------------------------------------------------------------------
(* One predicate node.  A node is a record:                                *)
(*   required, isAsync, custom   options (required, spec, changePred)      *)
(*   coll                        the own predicate node of a collection    *)
(*   subscribed                  the derived store has a subscriber        *)
(*   active, value, submitting   the input stores                          *)
(*   initialValue                _initialValue                             *)
(*   currPromise                 promise of the latest evaluation cycle    *)
(*   args                        baseArgs captured by the latest cycle     *)
(*   state                       the derived store's value (published)     *)
(*   toks                        promises of asynchronous validations      *)
(*   invoked                     the latest cycle invoked the user predicate *)
(*   notes                       states published during the current step  *)
(*   ovf                         the step needed more than MaxTok promises *)

predSpecable(initialValue, required, isAsync, custom, coll, toks) ==
    [required |-> required, isAsync |-> isAsync, custom |-> custom, coll |-> coll,
     subscribed |-> FALSE,
     active |-> FALSE, value |-> initialValue, submitting |-> FALSE,
     initialValue |-> initialValue,
     currPromise |-> NoPromise, args |-> NoArgs, state |-> NoState,
     toks |-> [t \in toks |-> FreeTok],
     invoked |-> FALSE, notes |-> 0, ovf |-> FALSE]

\* Variant: every active node is validated, whatever its value.
shouldValidateActive(n) == n.active

shouldValidate(n) == n.active /\ (~isUndefined(n, n.value) \/ n.required)

baseArgs(n) ==
    [active |-> n.active, initialValue |-> n.initialValue,
     submitting |-> n.submitting, value |-> n.value]

\* The callback of the derived store: one evaluation cycle.
Cycle(n) ==
    LET result == IF shouldValidate(n) THEN validatePred(n, n.value) ELSE ALWAYS_VALID
        invoked == shouldValidate(n) /\ ownSpec(n, n.value).user
        free == {t \in DOMAIN n.toks : n.toks[t].st = "free"}
        t == IF free = {} THEN 0 ELSE CHOOSE x \in free : \A y \in free : x <= y
        n1 == [n EXCEPT !.args = baseArgs(n),
                        !.state = interpretState(n, baseArgs(n), result),
                        !.invoked = invoked,
                        !.notes = @ + 1]
    IN  IF result.valid # "null"
        THEN [n1 EXCEPT !.currPromise = SyncPromise(result.valid = "true")]
        ELSE IF t = 0
        THEN [n1 EXCEPT !.ovf = TRUE]
        ELSE [n1 EXCEPT !.currPromise = AsyncPromise(t),
                        !.toks[t] = [st |-> "pending", v |-> n.value]]

\* An input store changed: the derived store recomputes if it is started.
Recompute(n) == IF n.subscribed THEN Cycle(n) ELSE n

\* Variant: a plain writable, notifying on every set.
valueSetUngated(n, newValue) == Recompute([n EXCEPT !.value = newValue])

\* writableByValue.set
valueSet(n, newValue) ==
    IF fastEquals(newValue, n.value) THEN n
    ELSE Recompute([n EXCEPT !.value = newValue])

\* writable(false).set on active and submitting (safe_not_equal on booleans)
activeSet(n, bool) ==
    IF bool = n.active THEN n ELSE Recompute([n EXCEPT !.active = bool])

submittingSet(n, bool) ==
    IF bool = n.submitting THEN n ELSE Recompute([n EXCEPT !.submitting = bool])

\* store.subscribe by the first subscriber: the derived store starts.
nodeSubscribe(n) == Cycle([n EXCEPT !.subscribed = TRUE])

\* mainStore.set(newValue, shouldActivate); the promise of activate() is dropped.
nodeSet(n, newValue, shouldActivate) ==
    LET n1 == valueSet(n, newValue)
    IN  IF shouldActivate THEN activeSet(n1, TRUE) ELSE n1

\* mainStore.reset(newValue); reset() passes the current _initialValue.
\* The default parameter applies to reset(undefined) as well.
nodeReset(n, arg) ==
    LET newValue == IF isUndefined(n, arg) THEN n.initialValue ELSE arg
        n1 == [n EXCEPT !.initialValue = newValue]
        n2 == activeSet(n1, FALSE)
    IN  valueSet(n2, newValue)

\* The promise of token t resolves: the then-callback of the cycle that
\* issued it publishes the resolved result unless the promise is outdated.
\* Only the latest cycle can publish, so only its baseArgs are kept.
\* Variant: no resolution is ever treated as outdated.
neverOutdated(n, t) == FALSE

outdated(n, t) == n.currPromise # AsyncPromise(t)

nodeResolve(n, t) ==
    LET r == resolvedResult(n, n.toks[t].v)
        n1 == [n EXCEPT !.toks[t] = FreeTok]
    IN  IF outdated(n, t) THEN n1
        ELSE [n1 EXCEPT
                !.state = interpretState(n, n.args, r),
                !.currPromise = SyncPromise(r.valid = "true"),
                !.notes = IF n.subscribed THEN @ + 1 ELSE @]

\* A promise p somebody holds, once the validation of token t resolved.
resolvePromise(p, n, t) ==
    IF p = AsyncPromise(t)
    THEN SyncPromise(resolvedResult(n, n.toks[t].v).valid = "true") ELSE p

\* The notification count is taken per operation.
begin(n) == [n EXCEPT !.notes = 0]

\* What `await p` yields once p is settled: the result's `valid`.
promiseSettled(p) == p.kind = "sync"

promiseValid(p) == p.valid

----------------------------------------------------------------------------
(* The collection node: an object-shaped, fixed-shape collection over the  *)
(* keys of Keys, child "x" required and child "y" not. A collection value  *)
(* is UndefColl or a function from some of the keys to child values. The   *)
(* node's own predicate and child "y" answer synchronously, child "x"      *)
(* asynchronously.                                                         *)

KeySeq == <<"x", "y">>
Own == "_"
StoreIds == {Own} \cup Keys

get(key, c) == IF c = UndefColl \/ key \notin DOMAIN c THEN Undef ELSE c[key]

\* merge(a, b) on objects: Object.assign({}, ...) over the arguments that
\* are collections (it throws when none is)
merge(a, b) ==
    IF a = UndefColl THEN b
    ELSE IF b = UndefColl THEN a
    ELSE [k \in (DOMAIN a) \cup (DOMAIN b) |-> IF k \in DOMAIN b THEN b[k] ELSE a[k]]

collSpecable(initialValue, ownRequired) ==
    [own |-> predSpecable(initialValue, ownRequired, FALSE, FALSE, TRUE, KidToks),
     kids |-> [k \in Keys |->
                 predSpecable(get(k, initialValue), k = "x", k = "x", FALSE, FALSE, KidToks)],
     collValue |-> initialValue,
     isUndef |-> (initialValue = UndefColl),
     submitting |-> FALSE,
     subscribed |-> FALSE,
     state |-> NoState]

storeOf(w, i) == IF i = Own THEN w.own ELSE w.kids[i]

\* The fields combineChildren reads, with true/false/null as strings.
Tri(b) == IF b THEN "true" ELSE "false"

summary(s) ==
    [active |-> Tri(s.active), changed |-> s.changed,
     valid |-> Tri(s.valid), validating |-> s.validating]

\* Variant: valid is false, not null, while a constituent is validating.
combineChildrenValidFalse(a, b) ==
    LET validating == a.validating \/ b.validating
    IN  [active |-> IF a.active = b.active THEN b.active ELSE "null",
         changed |-> a.changed \/ b.changed,
         valid |-> IF validating THEN "false"
                   ELSE IF a.valid # "true" THEN a.valid ELSE b.valid,
         validating |-> validating]

combineChildren(a, b) ==
    LET validating == a.validating \/ b.validating
    IN  [active |-> IF a.active = b.active THEN b.active ELSE "null",
         changed |-> a.changed \/ b.changed,
         valid |-> IF validating THEN "null"
                   ELSE IF a.valid # "true" THEN a.valid ELSE b.valid,
         validating |-> validating]

RECURSIVE reduce(_, _)
reduce(acc, states) ==
    IF states = <<>> THEN acc
    ELSE reduce(combineChildren(acc, Head(states)), Tail(states))

combined(w) ==
    IF w.isUndef THEN summary(w.own.state)
    ELSE reduce(summary(w.own.state),
                [i \in 1 .. Len(KeySeq) |-> summary(w.kids[KeySeq[i]].state)])

\* What the status aggregator publishes from the states it holds; of
\* `details` the keys, from which `errors` takes its entries.
statusState(w) ==
    LET c == combined(w)
    IN  [active |-> c.active, changed |-> c.changed,
         valid |-> c.valid, validating |-> c.validating,
         value |-> w.own.state.value, error |-> w.own.state.error,
         initialValue |-> w.own.state.initialValue,
         details |-> IF w.isUndef THEN {Own} ELSE StoreIds,
         submitting |-> w.submitting]

\* One run of the status aggregator and what it sets off: unless the
\* combined active flag is false it calls ownSpecable.activate(), whose
\* new state it then aggregates too.
statusSync(w) ==
    LET w1 == IF combined(w).active # "false"
              THEN [w EXCEPT !.own = activeSet(@, TRUE)] ELSE w
    IN  [w1 EXCEPT !.state = statusState(w1)]

\* The value aggregator over the children's published values.
derivedValue(w) ==
    IF w.isUndef THEN UndefColl
    ELSE merge(w.collValue, [k \in Keys |-> w.kids[k].state.value])

\* A child published a state: the value aggregator hands the aggregate to
\* ownSpecable.set, and the status aggregator runs.
afterKid(w) ==
    IF ~w.subscribed THEN w
    ELSE statusSync([w EXCEPT !.own = valueSet(@, derivedValue(w))])

\* The own predicate, or the submitting flag, published: status runs.
afterOwn(w) == IF ~w.subscribed THEN w ELSE statusSync(w)

kidDo(w, k, n2) ==
    LET w1 == [w EXCEPT !.kids[k] = n2]
    IN  IF n2.notes > w.kids[k].notes THEN afterKid(w1) ELSE w1

ownDo(w, n2) ==
    LET w1 == [w EXCEPT !.own = n2]
    IN  IF n2.notes > w.own.notes THEN afterOwn(w1) ELSE w1

collSubmittingSet(w, bool) ==
    IF bool = w.submitting THEN w ELSE afterOwn([w EXCEPT !.submitting = bool])

\* subscribe(fn): the value aggregator subscribes to every child and hands
\* its first value to ownSpecable.set; then the status aggregator subscribes
\* to submitting, the own predicate and every child.
collSubscribe(w) ==
    LET w1 == [w EXCEPT !.kids = [k \in Keys |-> nodeSubscribe(w.kids[k])],
                        !.subscribed = TRUE]
        w2 == [w1 EXCEPT !.own = nodeSubscribe(valueSet(@, derivedValue(w1)))]
    IN  statusSync(w2)

\* setValue(coll, {partial}), without reset, on a fixed-shape collection
RECURSIVE setChildren(_, _, _, _)
setChildren(w, c, partial, ks) ==
    IF ks = <<>> THEN w
    ELSE LET key == Head(ks)
             newValue == get(key, c)
             w1 == IF partial /\ newValue = Undef THEN w
                   ELSE kidDo(w, key, nodeSet(w.kids[key], newValue, partial))
         IN  setChildren(w1, c, partial, Tail(ks))

setValue(w, c, partial) ==
    LET collValue == IF partial THEN merge(w.collValue, c) ELSE c
        w1 == [w EXCEPT !.collValue = collValue, !.isUndef = (collValue = UndefColl)]
        w2 == ownDo(w1, nodeSet(w1.own, collValue, FALSE))
    IN  setChildren(w2, c, partial, KeySeq)

\* activate(bool): the stores it activates, and its synchronous part
\* Variant: the children are activated whatever the collection's value.
storesToActivateAll(w) == <<Own>> \o KeySeq

storesToActivate(w) == IF w.isUndef THEN <<Own>> ELSE <<Own>> \o KeySeq

RECURSIVE activateStores(_, _, _)
activateStores(w, bool, ss) ==
    IF ss = <<>> THEN w
    ELSE LET i == Head(ss)
             w1 == IF i = Own THEN ownDo(w, activeSet(w.own, bool))
                   ELSE kidDo(w, i, activeSet(w.kids[i], bool))
         IN  activateStores(w1, bool, Tail(ss))

collActivate(w, bool) == activateStores(w, bool, storesToActivate(w))

collSet(w, c, partial, shouldActivate) ==
    LET w1 == setValue(w, c, partial)
    IN  IF shouldActivate THEN collActivate(w1, TRUE) ELSE w1

\* createChildEntry, and the aggregators' subscription to the new store
collCreateChildEntry(w, key, val) ==
    LET n == predSpecable(val, key = "x", key = "x", FALSE, FALSE, KidToks)
    IN  IF w.subscribed THEN nodeSubscribe(n) ELSE n

\* setChildrenStores on the fixed-shape collection: the value aggregator
\* takes the new stores and hands its value to ownSpecable.set, whose
\* publication the status aggregator still combines with the stores it
\* had; then the status aggregator takes the new stores.
collSetChildrenStores(w, kids) ==
    IF ~w.subscribed THEN [w EXCEPT !.kids = kids]
    ELSE LET own1 == valueSet(w.own, derivedValue([w EXCEPT !.kids = kids]))
             w1 == [w EXCEPT !.own = own1]
             w2 == IF own1.notes > w.own.notes THEN statusSync(w1) ELSE w1
         IN  statusSync([w2 EXCEPT !.kids = kids])

collAddChildren(w, c) ==
    IF c = UndefColl THEN w
    ELSE collSetChildrenStores(w,
            [k \in Keys |-> IF k \in DOMAIN c THEN collCreateChildEntry(w, k, c[k])
                            ELSE w.kids[k]])

\* add(coll)
collAdd(w, c) ==
    collAddChildren([w EXCEPT !.isUndef = IF c = UndefColl THEN @ ELSE FALSE], c)

\* Promise.all over the awaited activations ps (store -> promise read)
anyInvalid(ps) ==
    \E i \in DOMAIN ps : promiseSettled(ps[i]) /\ ~promiseValid(ps[i])

\* Variant: only the own predicate's activation is looked at.
allValidOwn(ps) == promiseSettled(ps[Own]) /\ promiseValid(ps[Own])

allValid(ps) ==
    \A i \in DOMAIN ps : promiseSettled(ps[i]) /\ promiseValid(ps[i])

worldOvf(w) == w.own.ovf \/ \E k \in Keys : w.kids[k].ovf

endWorld(w) ==
    [w EXCEPT !.own = begin(@), !.kids = [k \in Keys |-> begin(w.kids[k])]]

----------------------------------------------------------------------------
(* The predicate node on its own: specification Spec.                      *)
(*   node      the node                                                    *)
(*   onSubmit  whether a submit handler is configured                      *)
(*   act       one activate() call made by the user                        *)
(*   sub       one submit() call made by the user                          *)
(*   op        the call the latest step made or resumed, and for set its   *)
(*             argument and whether it equalled the value held, for        *)
(*             activate on the collection whether every constituent was    *)
(*             active (history)                                            *)
(*   world, cact, csub   the collection node and its calls (SpecColl)      *)
(*   list      the array collection node (SpecList)                        *)
(*   form      the nested collection node and its errors (SpecErrors)      *)
(*   tree      the nodes around a predicate that reads its context         *)
(*             (SpecContext)                                               *)
(*   lib       the configured adapter and the latest call of configure or  *)
(*             of a node constructor (SpecLib)                             *)
(*   agg       the dynamic aggregator flexDerived (SpecAgg)                *)
(* An async function advances one await at a time; calls made by the user, *)
(* and resolutions of the user's promises, interleave freely with them.    *)

VARIABLES node, onSubmit, act, sub, op, world, cact, csub, list, form, tree,
          lib, agg, fold, pass

vars == <<node, onSubmit, act, sub, op, world, cact, csub, list, form, tree, lib, agg, fold, pass>>

Op(name) == [name |-> name, arg |-> Undef, same |-> FALSE, pre |-> FALSE, key |-> ""]

\* `cur` (history): the promise the call awaited was still the current one
\* when the call returned; `wait` (history): the call is an activate(true) made
\* on a node that had a subscriber and, from its read of currPromise on, one
\* that read a promise still pending.
IdleAct == [pc |-> "idle", p |-> NoPromise, res |-> FALSE, cur |-> FALSE,
            wait |-> FALSE]
IdleSub == [pc |-> "idle", p |-> NoPromise, valid |-> FALSE,
            called |-> FALSE, arg |-> Undef, res |-> "none", wait |-> FALSE]

\* The calls tracked on the collection: one activate(), whose promises
\* read are ps (kept for the step of its return), and one submit().
IdleCact == [pc |-> "idle", owner |-> "user", ps |-> <<>>, res |-> FALSE]
IdleCsub == [pc |-> "idle", valid |-> FALSE, called |-> FALSE,
             arg |-> UndefColl, res |-> "none"]

NoWorld == collSpecable(UndefColl, FALSE)

NoColl == world = NoWorld /\ cact = IdleCact /\ csub = IdleCsub

NoList == list = [none |-> TRUE]

NoForm == form = [none |-> TRUE]

NoTree == tree = [none |-> TRUE]

NoLib == lib = [none |-> TRUE]

NoAgg == agg = [none |-> TRUE]

NoFold == fold = [none |-> TRUE]

NoPass == pass = [none |-> TRUE]

InitValues == {Undef, "a"}

InitNode ==
    \E iv \in InitValues, required \in BOOLEAN, isAsync \in BOOLEAN, custom \in BOOLEAN :
        node = predSpecable(iv, required, isAsync, custom, FALSE, Toks)

Init ==
    /\ InitNode
    /\ onSubmit = FALSE
    /\ act = IdleAct
    /\ sub = IdleSub
    /\ op = Op("new")
    /\ NoColl
    /\ NoList
    /\ NoForm
    /\ NoTree
    /\ NoLib
    /\ NoAgg
    /\ NoFold
    /\ NoPass

InitSubmit ==
    /\ \E iv \in InitValues, required \in BOOLEAN, isAsync \in BOOLEAN :
          node = predSpecable(iv, required, isAsync, FALSE, FALSE, Toks)
    /\ onSubmit \in BOOLEAN
    /\ act = IdleAct
    /\ sub = IdleSub
    /\ op = Op("new")
    /\ NoColl
    /\ NoList
    /\ NoForm
    /\ NoTree
    /\ NoLib
    /\ NoAgg
    /\ NoFold
    /\ NoPass

\* The end of a step: the new node and the two calls.
Commit(o, n, a, s) ==
    /\ op' = o
    /\ ~n.ovf
    /\ node' = n
    /\ act' = a
    /\ sub' = s
    /\ UNCHANGED <<onSubmit, world, cact, csub, list, form, tree, lib, agg, fold, pass>>

Subscribe ==
    /\ ~node.subscribed
    /\ Commit(Op("step"), nodeSubscribe(begin(node)), act, sub)

Set(newValue, shouldActivate) ==
    /\ newValue \in Values
    /\ Commit([name |-> IF shouldActivate THEN "set+activate" ELSE "set",
               arg |-> newValue, same |-> (newValue = node.value), pre |-> FALSE,
               key |-> ""],
              nodeSet(begin(node), newValue, shouldActivate), act, sub)

Reset(newValue) ==
    /\ newValue \in Values
    /\ Commit(Op("reset"), nodeReset(begin(node), newValue), act, sub)

Resolve(t) ==
    /\ node.toks[t].st = "pending"
    /\ Commit([Op("step") EXCEPT !.key = "resolve", !.pre = ~node.active],
              nodeResolve(begin(node), t),
              [act EXCEPT !.p = resolvePromise(@, node, t)],
              [sub EXCEPT !.p = resolvePromise(@, node, t)])

\* activate(bool) whose promise the caller drops
ActivateDropped(bool) ==
    /\ bool \in BOOLEAN
    /\ Commit(Op("activate"), activeSet(begin(node), bool), act, sub)

\* activate(bool), up to its first await
Activate(bool) ==
    /\ act.pc \in {"idle", "done", "failed"}
    /\ Commit(Op("activate"), activeSet(begin(node), bool), [IdleAct EXCEPT !.pc = "tick", !.wait = (bool /\ node.subscribed)], sub)

\* after `await Promise.resolve()`: currPromise is read and awaited;
\* `undefined.valid` throws when no cycle ever ran
ActivateTick ==
    /\ act.pc = "tick"
    /\ Commit(Op("step"), begin(node),
              IF node.currPromise.kind = "none"
              THEN [IdleAct EXCEPT !.pc = "failed"]
              ELSE [IdleAct EXCEPT !.pc = "await", !.p = node.currPromise,
                                   !.wait = (act.wait /\ ~promiseSettled(node.currPromise))],
              sub)

\* after `await currPromise`: return res.valid
ActivateReturn ==
    /\ act.pc = "await"
    /\ promiseSettled(act.p)
    /\ Commit(Op("return"), begin(node),
              [IdleAct EXCEPT !.pc = "done", !.res = promiseValid(act.p), !.wait = act.wait,
                              !.cur = (act.p = node.currPromise)],
              sub)

\* submit(), up to the first await of the activate() it calls
Submit ==
    /\ sub.pc \in {"idle", "done"}
    /\ IF ~onSubmit
       THEN Commit(Op("submit"), begin(node), act,
                   [IdleSub EXCEPT !.pc = "done", !.res = "undefined"])
       ELSE Commit(Op("submit"), activeSet(submittingSet(begin(node), TRUE), TRUE), act,
                   [IdleSub EXCEPT !.pc = "tick"])

\* inside the activate() of submit(), after `await Promise.resolve()`
SubmitTick ==
    /\ sub.pc = "tick"
    /\ IF node.currPromise.kind = "none"
       THEN Commit(Op("step"), submittingSet(begin(node), FALSE), act,
                   [IdleSub EXCEPT !.pc = "done", !.res = "error"])
       ELSE Commit(Op("step"), begin(node), act,
                   [IdleSub EXCEPT !.pc = "await", !.p = node.currPromise,
                                   !.wait = ~promiseSettled(node.currPromise)])

\* the activate() of submit() returns res.valid
SubmitActivated ==
    /\ sub.pc = "await"
    /\ promiseSettled(sub.p)
    /\ Commit(Op("step"), begin(node), act,
              [IdleSub EXCEPT !.pc = "ret", !.valid = promiseValid(sub.p),
                              !.wait = sub.wait])

\* submit() resumes after `await activate()`
SubmitResume ==
    /\ sub.pc = "ret"
    /\ IF ~sub.valid
       THEN Commit(Op("step"), submittingSet(begin(node), FALSE), act,
                   [sub EXCEPT !.pc = "done", !.res = "false"])
       ELSE Commit(Op("invoke"), begin(node), act,
                   [sub EXCEPT !.pc = "handler", !.called = TRUE, !.arg = node.value])

\* Variant: the flag is reset only when the handler returns normally.
SubmitHandledNoFinally(ok) ==
    /\ sub.pc = "handler"
    /\ Commit(Op("step"), IF ok THEN submittingSet(begin(node), FALSE) ELSE begin(node), act,
              [sub EXCEPT !.pc = "done", !.arg = Undef,
                          !.res = IF ok THEN "true" ELSE "error"])

\* the promise of onSubmit(currValue, mainStore) settles; finally
SubmitHandled(ok) ==
    /\ sub.pc = "handler"
    /\ Commit(Op("step"), submittingSet(begin(node), FALSE), act,
              [sub EXCEPT !.pc = "done", !.arg = Undef,
                          !.res = IF ok THEN "true" ELSE "error"])

Next ==
    \/ Subscribe
    \/ \E v \in Values, sa \in BOOLEAN : Set(v, sa)
    \/ \E v \in Values : Reset(v)
    \/ \E t \in Toks : Resolve(t)
    \/ \E b \in BOOLEAN : Activate(b)
    \/ ActivateTick
    \/ ActivateReturn

Spec == Init /\ [][Next]_vars

NextSubmit ==
    \/ Subscribe
    \/ \E v \in Values, sa \in BOOLEAN : Set(v, sa)
    \/ \E t \in Toks : Resolve(t)
    \/ \E b \in BOOLEAN : ActivateDropped(b)
    \/ Submit
    \/ SubmitTick
    \/ SubmitActivated
    \/ SubmitResume
    \/ \E ok \in BOOLEAN : SubmitHandled(ok)

SpecSubmit == InitSubmit /\ [][NextSubmit]_vars

----------------------------------------------------------------------------
(* The collection node's operations.                                       *)

\* The arguments of set(coll, ...): undefined, a full object and one
\* without the required key.
CollArgs == {UndefColl, [x |-> "a", y |-> "b"], [y |-> "a"]}

InitColls == {[x |-> "a", y |-> "a"]}

KidValues == {"a", "b"}

InitColl ==
    /\ \E iv \in InitColls : world = collSpecable(iv, TRUE)
    /\ onSubmit \in BOOLEAN
    /\ cact = IdleCact
    /\ csub = IdleCsub
    /\ node = predSpecable(Undef, FALSE, FALSE, FALSE, FALSE, Toks)
    /\ act = IdleAct
    /\ sub = IdleSub
    /\ op = Op("new")
    /\ NoList
    /\ NoForm
    /\ NoTree
    /\ NoLib
    /\ NoAgg
    /\ NoFold
    /\ NoPass

CommitColl(o, w, ca, cs) ==
    /\ op' = o
    /\ ~worldOvf(w)
    /\ world' = endWorld(w)
    /\ cact' = IF ca.pc = "done" /\ o.name # "creturn" THEN [ca EXCEPT !.ps = <<>>] ELSE ca
    /\ csub' = cs
    /\ UNCHANGED <<node, onSubmit, act, sub, list, form, tree, lib, agg, fold, pass>>

CollSubscribe ==
    /\ ~world.subscribed
    /\ CommitColl(Op("step"), collSubscribe(world), cact, csub)

\* set(coll, partial, shouldActivate); merge throws, before anything is
\* stored, when neither the held value nor coll is a collection
CollSet(c, partial, shouldActivate) ==
    /\ world.subscribed
    /\ ~(partial /\ c = UndefColl /\ world.collValue = UndefColl)
    /\ CommitColl(Op("step"), collSet(world, c, partial, shouldActivate), cact, csub)

\* set(v) on one child
KidSet(k, v) ==
    /\ world.subscribed
    /\ CommitColl(Op("step"), kidDo(world, k, nodeSet(world.kids[k], v, FALSE)), cact, csub)

\* an asynchronous validation of a child resolves
KidResolve(k, t) ==
    /\ world.kids[k].toks[t].st = "pending"
    /\ CommitColl(Op("step"), kidDo(world, k, nodeResolve(world.kids[k], t)),
                  [cact EXCEPT !.ps = [i \in DOMAIN @ |->
                      IF i = k THEN resolvePromise(@[i], world.kids[k], t) ELSE @[i]]],
                  csub)

AwaitAll(w) == [i \in {storesToActivate(w)[j] : j \in 1 .. Len(storesToActivate(w))} |-> NoPromise]

\* activate(bool), up to the first await of the stores' activations
CollActivate(bool) ==
    /\ world.subscribed
    /\ cact.pc \in {"idle", "done"}
    /\ CommitColl([Op(IF bool THEN "activate(true)" ELSE "activate(false)")
                       EXCEPT !.pre = \A i \in StoreIds : storeOf(world, i).active],
                  collActivate(world, bool),
                  [IdleCact EXCEPT !.pc = "tick", !.ps = AwaitAll(world)], csub)

\* every store's activation reads its currPromise and awaits it
CollActivateTick ==
    /\ cact.pc = "tick"
    /\ CommitColl(Op("step"), world,
                  [cact EXCEPT !.pc = "await",
                               !.ps = [i \in DOMAIN cact.ps |-> storeOf(world, i).currPromise]],
                  csub)

\* Promise.all(...).then(() => true).catch(() => false) settles
CollActivateReturn ==
    /\ cact.pc = "await"
    /\ anyInvalid(cact.ps) \/ allValid(cact.ps)
    /\ LET res == allValid(cact.ps)
       IN  CommitColl(Op("creturn"), world,
                      [cact EXCEPT !.pc = "done", !.res = res],
                      IF cact.owner = "submit"
                      THEN [csub EXCEPT !.pc = "ret", !.valid = res] ELSE csub)

\* submit(), up to `await activate()`
CollSubmit ==
    /\ world.subscribed
    /\ csub.pc \in {"idle", "done"}
    /\ cact.pc \in {"idle", "done"}
    /\ IF ~onSubmit
       THEN CommitColl(Op("step"), world, cact,
                       [IdleCsub EXCEPT !.pc = "done", !.res = "undefined"])
       ELSE LET w1 == collSubmittingSet(world, TRUE)
            IN  CommitColl(Op("csubmit"), collActivate(w1, TRUE),
                           [IdleCact EXCEPT !.pc = "tick", !.owner = "submit",
                                            !.ps = AwaitAll(w1)],
                           [IdleCsub EXCEPT !.pc = "activating"])

\* after `await activate()`: the handler is called with the own predicate's
\* published value, or submitting is put down
CollSubmitResume ==
    /\ csub.pc = "ret"
    /\ IF csub.valid
       THEN CommitColl(Op("cinvoke"), world, cact,
                       [csub EXCEPT !.pc = "handler", !.called = TRUE,
                                    !.arg = world.own.state.value])
       ELSE CommitColl(Op("step"), collSubmittingSet(world, FALSE), cact,
                       [csub EXCEPT !.pc = "done", !.res = "undefined"])

\* the handler's promise settles; when it rejects, submit() rejects at the
\* await and the statements after it do not run
CollSubmitHandled(ok) ==
    /\ csub.pc = "handler"
    /\ IF ok
       THEN CommitColl(Op("step"), collSubmittingSet(world, FALSE), cact,
                       [csub EXCEPT !.pc = "done", !.arg = UndefColl, !.res = "undefined"])
       ELSE CommitColl(Op("step"), world, cact,
                       [csub EXCEPT !.pc = "done", !.arg = UndefColl, !.res = "error"])

\* add(coll)
CollAdd(c) ==
    /\ world.subscribed
    /\ CommitColl(Op("add"), collAdd(world, c), cact, csub)

NextColl ==
    \/ CollSubscribe
    \/ \E c \in CollArgs, partial \in BOOLEAN, sa \in BOOLEAN : CollSet(c, partial, sa)
    \/ \E k \in Keys, v \in KidValues : KidSet(k, v)
    \/ \E k \in Keys, t \in KidToks : KidResolve(k, t)
    \/ \E b \in BOOLEAN : CollActivate(b)
    \/ CollActivateTick
    \/ CollActivateReturn
    \/ CollSubmit
    \/ CollSubmitResume
    \/ \E ok \in BOOLEAN : CollSubmitHandled(ok)

SpecColl == InitColl /\ [][NextColl]_vars

----------------------------------------------------------------------------
(* The collection node around an undefined value: specification SpecUndef. *)
(* The node is created with undefined or with an object, no submit handler *)
(* is configured, and add(coll) is among the calls.                        *)

EmptyColl == [k \in {} |-> Undef]

AddArgs == {UndefColl, EmptyColl, [y |-> "b"]}

InitUndefs == {UndefColl, [x |-> "a", y |-> "a"]}

InitUndef ==
    /\ \E iv \in InitUndefs : world = collSpecable(iv, TRUE)
    /\ onSubmit = FALSE
    /\ cact = IdleCact
    /\ csub = IdleCsub
    /\ node = predSpecable(Undef, FALSE, FALSE, FALSE, FALSE, Toks)
    /\ act = IdleAct
    /\ sub = IdleSub
    /\ op = Op("new")
    /\ NoList
    /\ NoForm
    /\ NoTree
    /\ NoLib
    /\ NoAgg
    /\ NoFold
    /\ NoPass

NextUndef ==
    \/ CollSubscribe
    \/ \E c \in CollArgs, partial \in BOOLEAN, sa \in BOOLEAN : CollSet(c, partial, sa)
    \/ \E c \in AddArgs : CollAdd(c)
    \/ \E k \in Keys, v \in KidValues : KidSet(k, v)
    \/ \E k \in Keys, t \in KidToks : KidResolve(k, t)
    \/ \E b \in BOOLEAN : CollActivate(b)
    \/ CollActivateTick
    \/ CollActivateReturn

SpecUndef == InitUndef /\ [][NextUndef]_vars

----------------------------------------------------------------------------
(* The array collection node: collSpecable over an array, whose children   *)
(* come and go (add, remove, set).  An array collection always allows      *)
(* spread children; it gives each child a random id, or the id that the    *)
(* option getId reads off the child's initial value.  The children answer  *)
(* synchronously: a child is the record of its id and its inputs.          *)
(* Indices start at 1.                                                     *)

\* Bounds: the children an array collection holds, and the ids alive.
MaxKids == 2

MaxIds == 3

Ids == 1 .. MaxIds
Items == {"a", "b"}

UndefArr == [undef |-> TRUE, items |-> <<>>]
Arr(items) == [undef |-> FALSE, items |-> items]

\* keys(coll) and get(key, coll) on arrays
arrKeys(c) == IF c.undef THEN {} ELSE 1 .. Len(c.items)

arrGet(key, c) == IF key \in arrKeys(c) THEN c.items[key] ELSE Undef

\* removeUndefined and equals on arrays: undefined entries are dropped
arrRemoveUndefined(c) ==
    IF c.undef THEN c ELSE Arr(SelectSeq(c.items, LAMBDA e : e # Undef))

arrEquals(a, b) == arrRemoveUndefined(a) = arrRemoveUndefined(b)

idsOf(kids) == [i \in DOMAIN kids |-> kids[i].id]

idSet(kids) == {kids[i].id : i \in DOMAIN kids}

\* genRandomId: an id no store alive carries (0 when the bound is used up)
genRandomId(used) ==
    IF Ids \ used = {} THEN 0
    ELSE CHOOSE x \in Ids \ used : \A y \in Ids \ used : x <= y

\* A configured getId: the id is read off the item, (v, k) => v.id
getId(v) == IF v = "a" THEN 1 ELSE 2

\* keys(coll).map(createChildEntry): one inactive child per item, whose id
\* idGen takes from getId when it is configured, at random otherwise
RECURSIVE createChildEntries(_, _, _, _)
createChildEntries(items, ownGetId, used, acc) ==
    IF items = <<>> THEN acc
    ELSE LET id == IF ownGetId THEN getId(Head(items)) ELSE genRandomId(used)
         IN  createChildEntries(Tail(items), ownGetId, used \cup {id},
                 Append(acc, [id |-> id, value |-> Head(items), active |-> FALSE]))

(* The node is a record:                                                   *)
(*   ownGetId      the option getId is configured                          *)
(*   kids          childrenStores, in order                                *)
(*   gone          children removed by the latest call, still held by the  *)
(*                 caller                                                  *)
(*   isUndef       isUndef                                                 *)
(*   own           the own predicate node: value, active, _initialValue    *)
(*   subscribed    the collection has its subscriber                       *)
(*   vsubs, ssubs  the children the value aggregator and the status        *)
(*                 aggregator are subscribed to                            *)
(*   notified      the subscriber was notified during the latest call      *)
(*   stopped, started   the children either aggregator unsubscribed from,  *)
(*                 and subscribed to, during the latest call               *)
(*   h             the latest call's arguments and the children and        *)
(*                 published value before it (history)                     *)
NoHist ==
    [kids |-> <<>>, pub |-> UndefArr, arg |-> UndefArr, ids |-> {},
     partial |-> FALSE, base |-> <<>>, basePub |-> UndefArr, at |-> 0]

listSpecable(initialValue, ownGetId) ==
    [ownGetId |-> ownGetId,
     kids |-> createChildEntries(initialValue.items, ownGetId, {}, <<>>),
     gone |-> <<>>,
     isUndef |-> initialValue.undef,
     own |-> [value |-> initialValue, active |-> FALSE, initialValue |-> initialValue],
     subscribed |-> FALSE, vsubs |-> {}, ssubs |-> {},
     stopped |-> {}, started |-> {},
     notified |-> FALSE, ovf |-> FALSE, h |-> NoHist]

\* The value the collection publishes: the own predicate's state.value
listPub(s) ==
    IF arrEquals(s.own.value, s.own.initialValue)
    THEN s.own.initialValue ELSE s.own.value

\* One run of the status aggregator and what it sets off: unless every
\* constituent it combines is inactive it activates the own predicate.
listStatus(s) ==
    [s EXCEPT !.own.active = @ \/ (~s.isUndef /\ \E i \in DOMAIN s.kids : s.kids[i].active),
              !.notified = TRUE]

\* ownSpecable.set(v) and ownSpecable.activate(bool); their publications
\* reach the status aggregator
listOwnSet(s, v) ==
    IF v = s.own.value THEN s
    ELSE LET s1 == [s EXCEPT !.own.value = v]
         IN  IF s.subscribed THEN listStatus(s1) ELSE s1

listOwnActivate(s, bool) ==
    IF bool = s.own.active THEN s
    ELSE LET s1 == [s EXCEPT !.own.active = bool]
         IN  IF s.subscribed THEN listStatus(s1) ELSE s1

listDerivedValue(s) ==
    IF s.isUndef THEN UndefArr
    ELSE Arr([i \in DOMAIN s.kids |-> s.kids[i].value])

\* The value aggregator publishes; its subscriber hands the value to
\* ownSpecable.set
listValueSync(s) == listOwnSet(s, listDerivedValue(s))

\* The child with this id published a state: the aggregators subscribed to
\* it run.
listKidPublished(s, id) ==
    LET s1 == IF id \in s.vsubs THEN listValueSync(s) ELSE s
    IN  IF id \in s.ssubs THEN listStatus(s1) ELSE s1

\* set(v, shouldActivate) and activate(bool) on a child
kidSet(k, v, shouldActivate) ==
    [k EXCEPT !.value = v, !.active = @ \/ shouldActivate]

listKidDo(s, i, k2) ==
    LET s1 == [s EXCEPT !.kids[i] = k2]
    IN  IF k2 # s.kids[i] THEN listKidPublished(s1, k2.id) ELSE s1

\* flexDerived, on a new list of stores: the subscriptions that are
\* stopped and those that are kept
\* Variant: no subscription is stopped.
stopUnusedSubsNone(unsubs, usedStores) == {}

stopUnusedSubs(unsubs, usedStores) == {st \in unsubs : st \notin usedStores}

\* Variant: no subscription is kept, each store is subscribed to afresh.
updateUnsubsAfresh(unsubs, stores) == {}

updateUnsubs(unsubs, stores) == {st \in unsubs : st \in stores}

subscribeNew(unsubs, stores) == unsubs \cup stores

\* One aggregator of the collection takes the new list of stores
aggSet(s, f, stores) ==
    LET kept == updateUnsubs(s[f], stores)
    IN  [s EXCEPT ![f] = subscribeNew(kept, stores),
                  !.stopped = @ \cup stopUnusedSubs(s[f], stores),
                  !.started = @ \cup (stores \ kept)]

setChildrenStores(s, newKids) ==
    LET stores == idSet(newKids)
        s1 == [s EXCEPT !.kids = newKids]
        s2 == listValueSync(aggSet(s1, "vsubs", stores))
    IN  IF ~s.subscribed THEN s1
        ELSE listStatus(aggSet(s2, "ssubs", stores))

aliveIds(s) == idSet(s.kids) \cup idSet(s.gone) \cup s.vsubs \cup s.ssubs

addChildren(s, coll) ==
    IF coll.undef THEN s
    ELSE LET newEntries == createChildEntries(coll.items, s.ownGetId, aliveIds(s), <<>>)
         IN  setChildrenStores([s EXCEPT !.ovf = @ \/ 0 \in idSet(newEntries)],
                               s.kids \o newEntries)

\* Variant: the children are dropped by their position.
removeChildrenByKey(s, idsToRemove) ==
    IF idsToRemove = {} THEN s
    ELSE setChildrenStores(s,
            [i \in 1 .. Cardinality(DOMAIN s.kids \ idsToRemove) |->
                s.kids[CHOOSE j \in DOMAIN s.kids \ idsToRemove :
                          Cardinality({m \in DOMAIN s.kids \ idsToRemove : m <= j}) = i]])

removeChildrenById(s, idsToRemove) ==
    IF idsToRemove = {} THEN s
    ELSE setChildrenStores(s, SelectSeq(s.kids, LAMBDA k : k.id \notin idsToRemove))

\* setValue's loop over childrenEntries, from entry i on
RECURSIVE listSetChildren(_, _, _, _)
listSetChildren(s, coll, partial, i) ==
    IF i > Len(s.kids) THEN s
    ELSE LET newValue == arrGet(i, coll)
             s1 == IF partial /\ newValue = Undef THEN s
                   ELSE listKidDo(s, i, kidSet(s.kids[i], newValue, partial))
         IN  listSetChildren(s1, coll, partial, i + 1)

\* Variant: no entry of coll counts as missing.
missingChildrenNone(s, coll) == UndefArr

\* The entries of coll that are not part of the children stores yet
missingChildren(s, coll) ==
    IF Len(coll.items) > Len(s.kids)
    THEN Arr(SubSeq(coll.items, Len(s.kids) + 1, Len(coll.items)))
    ELSE UndefArr

\* The ids of the children whose key coll does not have
unusedIds(s, coll) == {s.kids[i].id : i \in DOMAIN s.kids \ arrKeys(coll)}

\* setValue(coll, {partial}), without reset, on a collection with spread
\* children
listSetValue(s, coll, partial) ==
    LET s1 == listOwnSet([s EXCEPT !.isUndef = coll.undef], coll)
        s2 == listSetChildren(s1, coll, partial, 1)
        s3 == addChildren(s2, missingChildren(s, coll))
    IN  IF partial THEN s3 ELSE removeChildrenById(s3, unusedIds(s, coll))

RECURSIVE listActivateKids(_, _, _)
listActivateKids(s, bool, i) ==
    IF i > Len(s.kids) THEN s
    ELSE listActivateKids(listKidDo(s, i, [s.kids[i] EXCEPT !.active = bool]), bool, i + 1)

listActivate(s, bool) ==
    LET s1 == listOwnActivate(s, bool)
    IN  IF s.isUndef THEN s1 ELSE listActivateKids(s1, bool, 1)

listSet(s, coll, partial, shouldActivate) ==
    LET s1 == listSetValue(s, coll, partial)
    IN  IF shouldActivate THEN listActivate(s1, TRUE) ELSE s1

listAdd(s, coll) ==
    addChildren([s EXCEPT !.isUndef = IF coll.undef THEN @ ELSE FALSE], coll)

\* update(fn), for the fn that reorders the children: child order[i] of the
\* list comes i-th
Orders(n) == {o \in [1 .. n -> 1 .. n] : \A i, j \in 1 .. n : o[i] = o[j] => i = j}

listUpdate(s, order) == setChildrenStores(s, [i \in DOMAIN order |-> s.kids[order[i]]])

\* subscribe(fn): the value aggregator starts and hands its first value to
\* ownSpecable.set, then the status aggregator starts.
listSubscribe(s) ==
    LET s1 == [s EXCEPT !.subscribed = TRUE, !.vsubs = idSet(s.kids),
                        !.started = idSet(s.kids)]
        s2 == listValueSync(s1)
    IN  listStatus([s2 EXCEPT !.ssubs = idSet(s.kids)])

----------------------------------------------------------------------------
(* The array collection node's operations: specification SpecList.         *)

ListArgs == {UndefArr, Arr(<<>>), Arr(<<"a">>), Arr(<<"b", "a">>)}

InitLists == {UndefArr, Arr(<<"a", "b">>)}

\* The arguments of remove(idsToRemove): up to two ids
RemoveArgs == {ids \in SUBSET Ids : Cardinality(ids) <= 2}

InitList ==
    /\ \E iv \in InitLists, ownGetId \in BOOLEAN : list = listSpecable(iv, ownGetId)
    /\ onSubmit = FALSE
    /\ node = predSpecable(Undef, FALSE, FALSE, FALSE, FALSE, Toks)
    /\ act = IdleAct
    /\ sub = IdleSub
    /\ op = Op("new")
    /\ NoColl
    /\ NoForm
    /\ NoTree
    /\ NoLib
    /\ NoAgg
    /\ NoFold
    /\ NoPass

\* The call's history, the children it removed, and the bounds.
CommitList(name, s, h) ==
    /\ ~s.ovf
    /\ Len(s.kids) <= MaxKids
    /\ op' = Op(name)
    /\ list' = [s EXCEPT !.h = h,
                         !.gone = SelectSeq(list.kids, LAMBDA k : k.id \notin idSet(s.kids))]
    /\ UNCHANGED <<node, onSubmit, act, sub, world, cact, csub, form, tree, lib, agg, fold, pass>>

begun(s) == [s EXCEPT !.notified = FALSE, !.gone = <<>>, !.stopped = {}, !.started = {}]

Hist(s) == [NoHist EXCEPT !.kids = s.kids]

ListSubscribe ==
    /\ ~list.subscribed
    /\ CommitList("subscribe", listSubscribe(begun(list)), NoHist)

ListAdd(coll) ==
    /\ coll \in ListArgs
    /\ LET s == listAdd(begun(list), coll)
       IN  CommitList("add", s,
               [Hist(list) EXCEPT !.arg = coll, !.pub = listPub(list),
                                  !.ids = {s.kids[i].id : i \in DOMAIN s.kids \ DOMAIN list.kids}])

\* remove(idsToRemove); right after an add, the removal of exactly the
\* children that add created is told apart
ListRemove(ids) ==
    /\ ids \in RemoveArgs
    /\ IF op.name = "add" /\ ids = list.h.ids /\ ids # {}
       THEN CommitList("add-remove", removeChildrenById(begun(list), ids),
                [Hist(list) EXCEPT !.ids = ids, !.arg = list.h.arg,
                                   !.base = list.h.kids, !.basePub = list.h.pub])
       ELSE CommitList("remove", removeChildrenById(begun(list), ids),
                [Hist(list) EXCEPT !.ids = ids])

ListSet(coll, partial, shouldActivate) ==
    /\ coll \in ListArgs
    /\ CommitList("set", listSet(begun(list), coll, partial, shouldActivate),
            [Hist(list) EXCEPT !.arg = coll, !.partial = partial])

ListActivate(bool) ==
    /\ bool \in BOOLEAN
    /\ CommitList("activate", listActivate(begun(list), bool), NoHist)

\* update(fn) with a reordering fn
ListUpdate(order) ==
    /\ order \in Orders(Len(list.kids))
    /\ CommitList("update", listUpdate(begun(list), order),
                  [Hist(list) EXCEPT !.pub = listPub(list)])

\* set(v) on a current child
ListKidSet(i, v) ==
    /\ i \in DOMAIN list.kids
    /\ CommitList("kid", listKidDo(begun(list), i, kidSet(list.kids[i], v, FALSE)),
                  [NoHist EXCEPT !.at = i])

\* set(v) on a child that the latest call removed
ListGoneSet(j, v) ==
    /\ j \in DOMAIN list.gone
    /\ list.gone[j].value # v
    /\ list' = [listKidPublished([list EXCEPT !.notified = FALSE, !.stopped = {},
                                                !.started = {}], list.gone[j].id)
                  EXCEPT !.gone[j].value = v, !.h = [NoHist EXCEPT !.ids = {list.gone[j].id}]]
    /\ op' = Op("gone")
    /\ UNCHANGED <<node, onSubmit, act, sub, world, cact, csub, form, tree, lib, agg, fold, pass>>

NextList ==
    \/ ListSubscribe
    \/ \E coll \in ListArgs : ListAdd(coll)
    \/ \E ids \in RemoveArgs : ListRemove(ids)
    \/ \E coll \in ListArgs, partial \in BOOLEAN, sa \in BOOLEAN : ListSet(coll, partial, sa)
    \/ \E b \in BOOLEAN : ListActivate(b)
    \/ \E i \in 1 .. MaxKids, v \in Items : ListKidSet(i, v)
    \/ \E j \in 1 .. MaxKids, v \in Items : ListGoneSet(j, v)
    \/ \E n \in 0 .. MaxKids : \E order \in Orders(n) : ListUpdate(order)

SpecList == InitList /\ [][NextList]_vars

----------------------------------------------------------------------------
(* The errors a collection publishes: an object-shaped collection with a   *)
(* field (a predicate node) and a nested object-shaped collection "n" that *)
(* has one field; an object collection gives each child its key as id.     *)
(* A state here is what a node publishes: kind "pred" for a predicate      *)
(* node's state, kind "coll" for a collection's, which has `details`.      *)
(* A details object is the sequence of its keys, in Object.entries order,  *)
(* and the state at each key.                                              *)

FieldIds == {"a", "id", "_"}

\* The error a failing node publishes
ErrorOf(id) == <<"invalid", id>>

\* The object that the property `id` of a details object holds when a child
\* has the id "id": that child's state
ObjectState == "[object Object]"

predState(id, failing) ==
    [kind |-> "pred", id |-> id, error |-> IF failing THEN ErrorOf(id) ELSE NoError]

\* Object.fromEntries([["_", $ownSpecable], ...$children.map((child) =>
\* [child.id, child])]): a later entry replaces an earlier one of its key
detailsOf(own, children) ==
    LET ids == [i \in DOMAIN children |-> children[i].id]
        first(i) == \A j \in 1 .. (i - 1) : ids[j] # ids[i]
        last(k) == CHOOSE i \in DOMAIN children :
                      ids[i] = k /\ \A j \in DOMAIN children : ids[j] = k => j <= i
        fresh == SelectSeq(ids, LAMBDA k : k # Own)
    IN  [keys |-> <<Own>> \o
                  [n \in 1 .. Len(fresh) |-> fresh[n]],
         at |-> [k \in {Own} \cup {ids[i] : i \in DOMAIN ids} |->
                    IF \E i \in DOMAIN ids : ids[i] = k THEN children[last(k)] ELSE own]]

\* details.id
detailsId(details) == IF "id" \in DOMAIN details.at THEN ObjectState ELSE Undef

\* newPath.join("."): the path's entries with a dot between them
RECURSIVE join(_)
join(path) ==
    IF Len(path) <= 1 THEN path
    ELSE <<Head(path), ".">> \o join(Tail(path))

liftError(parentId, e) ==
    LET newPath == IF parentId = Undef THEN e.path ELSE <<parentId>> \o e.path
    IN  [e EXCEPT !.path = newPath, !.which = join(newPath)]

summarizeStatusError(status) ==
    [path |-> <<status.id>>, which |-> <<status.id>>, error |-> status.error,
     isColl |-> FALSE]

mapLift(errors, parentId) == [i \in DOMAIN errors |-> liftError(parentId, errors[i])]

RECURSIVE detailsToErrors(_, _)
RECURSIVE flatMap(_, _)
\* Object.entries(details).flatMap(...), over the keys from the i-th on
flatMap(details, i) ==
    IF i > Len(details.keys) THEN <<>>
    ELSE LET key == details.keys[i]
             status == details.at[key]
             here == IF status.kind # "coll"
                     THEN IF status.error = NoError THEN <<>>
                          ELSE IF key = Own
                          THEN <<[path |-> <<>>, which |-> <<>>,
                                  error |-> status.error, isColl |-> TRUE]>>
                          ELSE <<summarizeStatusError(status)>>
                     ELSE mapLift(detailsToErrors(status.details, detailsId(details)),
                                  status.id)
         IN  here \o flatMap(details, i + 1)

detailsToErrors(details, parentId) == mapLift(flatMap(details, 1), parentId)

\* What the status aggregator of a collection with this id publishes
collState(id, ownFailing, children) ==
    LET details == detailsOf(predState(id, ownFailing), children)
        errors == detailsToErrors(details, id)
    IN  [kind |-> "coll", id |-> id,
         error |-> IF ownFailing THEN ErrorOf(id) ELSE NoError,
         details |-> details,
         errors |-> errors,
         collErrors |-> SelectSeq(errors, LAMBDA e : e.isColl)]

(* The node is a record:                                                   *)
(*   field, inner    the ids (keys) of the field and of the nested         *)
(*                   collection's field                                    *)
(*   failing         the nodes whose own predicate fails: "root", "field", *)
(*                   "n" (the nested collection's own) and "inner"         *)
(*   subscribed      the root collection has its subscriber                *)
(*   state           the state the root collection published last          *)
Nodes == {"root", "field", "n", "inner"}

formSpecable(field, inner) ==
    [field |-> field, inner |-> inner, failing |-> {},
     subscribed |-> FALSE, state |-> NoState]

\* The status aggregators run, the nested collection's first.
formStatus(f) ==
    LET nested == collState("n", "n" \in f.failing,
                            <<predState(f.inner, "inner" \in f.failing)>>)
    IN  [f EXCEPT !.state =
            collState(Undef, "root" \in f.failing,
                      <<predState(f.field, "field" \in f.failing), nested>>)]

InitErrors ==
    /\ \E field \in FieldIds, inner \in FieldIds : form = formSpecable(field, inner)
    /\ onSubmit = FALSE
    /\ node = predSpecable(Undef, FALSE, FALSE, FALSE, FALSE, Toks)
    /\ act = IdleAct
    /\ sub = IdleSub
    /\ op = Op("new")
    /\ NoColl
    /\ NoList
    /\ NoTree
    /\ NoLib
    /\ NoAgg
    /\ NoFold
    /\ NoPass

FormSubscribe ==
    /\ ~form.subscribed
    /\ form' = formStatus([form EXCEPT !.subscribed = TRUE])
    /\ op' = Op("subscribe")
    /\ UNCHANGED <<node, onSubmit, act, sub, world, cact, csub, list, tree, lib, agg, fold, pass>>

\* A node's predicate starts or stops failing (its value was set): the node
\* publishes, and the status aggregators above it run.
FormValidate(n) ==
    /\ form.subscribed
    /\ n \in Nodes
    /\ form' = formStatus([form EXCEPT !.failing =
                              IF n \in @ THEN @ \ {n} ELSE @ \cup {n}])
    /\ op' = Op("validate")
    /\ UNCHANGED <<node, onSubmit, act, sub, world, cact, csub, list, tree, lib, agg, fold, pass>>

NextErrors ==
    \/ FormSubscribe
    \/ \E n \in Nodes : FormValidate(n)

SpecErrors == InitErrors /\ [][NextErrors]_vars

----------------------------------------------------------------------------
(* A predicate that reads its context: getFrom(relPath).  The reader is    *)
(* a predicate node on its own ("pred"), or a node of the collection       *)
(* {x, n: {y, z}}: the own predicate of the root collection ("rootOwn"),   *)
(* the child x of the root, or the child y of the nested collection n.     *)
(* The reader's predicate calls getFrom(relPath) each time it is invoked.  *)
(* A relative path is the sequence of its segments between the "/".        *)
(* The nodes answer synchronously and none is required; of a node only     *)
(* the inputs value and active are kept.                                   *)
(* The node is a record:                                                   *)
(*   kind, relPath   the reader and the path its predicate reads           *)
(*   subscribed      the root (or the node on its own) has its subscriber  *)
(*   pred            the node on its own                                   *)
(*   leaf            the children x, y, z                                  *)
(*   coll            the collections root and n: collValue, isUndef and    *)
(*                   the own predicate's value and active                  *)
(*   tracked         contextStores[relPath] exists                         *)
(*   curr            contextStores[relPath].value                          *)
(*   cval            $context[relPath]                                     *)
(*   invoked, seen   the reader's latest cycle invoked its predicate, and  *)
(*                   what getFrom returned to it                           *)
(*   threw           getFrom threw                                         *)

Kinds == {"pred", "rootOwn", "x", "y"}
Leaves == {"x", "y", "z"}
Colls == {"root", "n"}

Paths ==
    {<<"x">>, <<"..", "x">>, <<"..", "z">>, <<"..", "n", "z">>,
     <<"..", "..", "x">>, <<"..", "..", "..", "x">>}

\* (str.match(/\.\.\/|\.\.$/g) || []).length: a ".." before a "/" or at
\* the end of the string
countPathAncestors(relPath) ==
    Cardinality({i \in DOMAIN relPath : relPath[i] = ".."})

IsForward(seg) == seg \notin {"", ".", ".."}

keepForwardPath(relPath) == SelectSeq(relPath, IsForward)

UndefN == [undef |-> TRUE, y |-> Undef, z |-> Undef]
UndefRoot == [undef |-> TRUE, x |-> Undef, n |-> UndefN]
ObjN(y, z) == [undef |-> FALSE, y |-> y, z |-> z]
ObjRoot(x, n) == [undef |-> FALSE, x |-> x, n |-> n]

\* getPath(path, value) from the value of the collection c, for the paths
\* that end at a child holding a scalar
RECURSIVE getPath(_, _, _)
getPath(path, c, value) ==
    IF value.undef \/ path = <<>> THEN Undef
    ELSE IF c = "root"
    THEN IF path = <<"x">> THEN value.x
         ELSE IF Head(path) = "n" THEN getPath(Tail(path), "n", value.n)
         ELSE Undef
    ELSE IF path = <<"y">> THEN value.y
         ELSE IF path = <<"z">> THEN value.z
         ELSE Undef

\* The collections above a node: none for the node on its own and for the
\* root's own predicate, whose _extra holds no getAncestor.
level(kind) ==
    CASE kind = "pred" -> 0
      [] kind = "rootOwn" -> 0
      [] kind = "x" -> 1
      [] kind = "y" -> 2

\* The collection that made the getAncestor of a node at level lv.
maker(lv) == IF lv = 1 THEN "root" ELSE "n"

\* getAncestor of a node at level lv >= 1:
\* (n) => n <= 1 || !getAncestor ? ownSpecable : getAncestor(n - 1)
RECURSIVE getAncestor(_, _)
getAncestor(lv, n) ==
    IF n <= 1 \/ lv - 1 = 0 THEN maker(lv)
    ELSE getAncestor(lv - 1, n - 1)

treeSpecable(kind, relPath) ==
    [kind |-> kind, relPath |-> relPath,
     subscribed |-> FALSE,
     pred |-> [value |-> "a", active |-> FALSE],
     leaf |-> [k \in Leaves |-> [value |-> "a", active |-> FALSE]],
     coll |-> [c \in Colls |->
                 [collValue |-> IF c = "root" THEN ObjRoot("a", ObjN("a", "a"))
                                ELSE ObjN("a", "a"),
                  isUndef |-> FALSE,
                  value |-> IF c = "root" THEN ObjRoot("a", ObjN("a", "a"))
                            ELSE ObjN("a", "a"),
                  active |-> FALSE]],
     tracked |-> FALSE, curr |-> Undef, cval |-> Undef,
     invoked |-> FALSE, seen |-> Undef, threw |-> FALSE]

ancestorOf(s) == getAncestor(level(s.kind), countPathAncestors(s.relPath))

ancestorValue(s) == s.coll[ancestorOf(s)].value

\* The callback of contextStores[relPath], run on a state of the ancestor.
contextRun(s) ==
    IF ancestorValue(s).undef THEN s
    ELSE LET next == getPath(keepForwardPath(s.relPath), ancestorOf(s), ancestorValue(s))
         IN  IF s.curr = next THEN s
             ELSE [s EXCEPT !.curr = next, !.cval = next]

\* addContext(relPath), called by the first getFrom(relPath)
addContext(s) ==
    IF level(s.kind) = 0 THEN [s EXCEPT !.threw = TRUE]
    ELSE LET static == getPath(keepForwardPath(s.relPath), ancestorOf(s), ancestorValue(s))
             s1 == contextRun([s EXCEPT !.tracked = TRUE])
         IN  [s1 EXCEPT !.invoked = TRUE, !.seen = static]

readerActive(s) ==
    CASE s.kind = "pred" -> s.pred.active
      [] s.kind = "rootOwn" -> s.coll["root"].active
      [] OTHER -> s.leaf[s.kind].active

readerDefined(s) ==
    CASE s.kind = "pred" -> s.pred.value # Undef
      [] s.kind = "rootOwn" -> ~s.coll["root"].value.undef
      [] OTHER -> s.leaf[s.kind].value # Undef

\* One cycle of the reader's derived store: the predicate is invoked when
\* the node is active and its value is not undefined, and calls getFrom.
readerCycle(s) ==
    IF s.threw \/ ~s.subscribed THEN s
    ELSE IF ~(readerActive(s) /\ readerDefined(s)) THEN [s EXCEPT !.invoked = FALSE]
    ELSE IF s.tracked THEN [s EXCEPT !.invoked = TRUE, !.seen = s.cval]
    ELSE addContext(s)

\* A cycle of the node k, if it is the reader.
cycleOf(s, k) == IF s.kind = k THEN readerCycle(s) ELSE s

\* The own predicate of c published: the reader's context store runs, and
\* a new context value starts a cycle of the reader.
ownPublished(s, c) ==
    IF s.subscribed /\ s.tracked /\ ~s.threw /\ ancestorOf(s) = c
    THEN LET s1 == contextRun(s)
         IN  IF s1.cval # s.cval THEN readerCycle(s1) ELSE s1
    ELSE s

\* The value aggregators
derivedN(s) ==
    IF s.coll["n"].isUndef THEN UndefN
    ELSE ObjN(s.leaf["y"].value, s.leaf["z"].value)

derivedRoot(s) ==
    IF s.coll["root"].isUndef THEN UndefRoot
    ELSE ObjRoot(s.leaf["x"].value, s.coll["n"].value)

ownOf(c) == IF c = "root" THEN "rootOwn" ELSE "nOwn"

\* ownSpecable.set(v) of the root
ownSetRoot(s, v) ==
    IF s.coll["root"].value = v THEN s
    ELSE ownPublished(cycleOf([s EXCEPT !.coll["root"].value = v], "rootOwn"), "root")

\* A child of the root published: the root's value aggregator runs.
rootChildPublished(s) ==
    IF s.subscribed THEN ownSetRoot(s, derivedRoot(s)) ELSE s

\* ownSpecable.set(v) of n; n then publishes its state to the root
ownSetN(s, v) ==
    IF s.coll["n"].value = v THEN s
    ELSE rootChildPublished(ownPublished([s EXCEPT !.coll["n"].value = v], "n"))

nChildPublished(s) ==
    IF s.subscribed THEN rootChildPublished(ownSetN(s, derivedN(s))) ELSE s

leafPublished(s, k) ==
    IF k = "x" THEN rootChildPublished(s) ELSE nChildPublished(s)

\* set(v) of a child
leafSet(s, k, v) ==
    IF s.leaf[k].value = v THEN s
    ELSE leafPublished(cycleOf([s EXCEPT !.leaf[k].value = v], k), k)

\* active.set(bool) of a child
leafActivate(s, k, bool) ==
    IF s.leaf[k].active = bool THEN s
    ELSE leafPublished(cycleOf([s EXCEPT !.leaf[k].active = bool], k), k)

\* active.set(bool) of an own predicate
ownActivate(s, c, bool) ==
    IF s.coll[c].active = bool THEN s
    ELSE LET s1 == ownPublished(cycleOf([s EXCEPT !.coll[c].active = bool], ownOf(c)), c)
         IN  IF c = "n" THEN rootChildPublished(s1) ELSE s1

\* combined.active of the states the status aggregator of c holds
allSame(flags) ==
    IF flags = {"true"} THEN "true" ELSE IF flags = {"false"} THEN "false" ELSE "null"

activeOfN(s) ==
    IF s.coll["n"].isUndef THEN Tri(s.coll["n"].active)
    ELSE allSame({Tri(s.coll["n"].active), Tri(s.leaf["y"].active), Tri(s.leaf["z"].active)})

activeOfRoot(s) ==
    IF s.coll["root"].isUndef THEN Tri(s.coll["root"].active)
    ELSE allSame({Tri(s.coll["root"].active), Tri(s.leaf["x"].active), activeOfN(s)})

\* The status aggregators: `if (combined.active !== false)
\* ownSpecable.activate()`, in n and then in the root
statusRun(s) ==
    IF ~s.subscribed THEN s
    ELSE LET s1 == IF activeOfN(s) # "false" THEN ownActivate(s, "n", TRUE) ELSE s
         IN  IF activeOfRoot(s1) # "false" THEN ownActivate(s1, "root", TRUE) ELSE s1

\* setValue(coll) of n, neither partial nor reset
setValueN(s, coll) ==
    LET s1 == [s EXCEPT !.coll["n"].collValue = coll, !.coll["n"].isUndef = coll.undef]
        s2 == ownSetN(s1, coll)
        s3 == leafSet(s2, "y", coll.y)
    IN  leafSet(s3, "z", coll.z)

\* setValue(coll) of the root, neither partial nor reset
setValueRoot(s, coll) ==
    LET s1 == [s EXCEPT !.coll["root"].collValue = coll, !.coll["root"].isUndef = coll.undef]
        s2 == ownSetRoot(s1, coll)
        s3 == leafSet(s2, "x", coll.x)
    IN  setValueN(s3, coll.n)

\* activate(true) of n and of the root
activateN(s) ==
    LET s1 == ownActivate(s, "n", TRUE)
    IN  IF s1.coll["n"].isUndef THEN s1
        ELSE leafActivate(leafActivate(s1, "y", TRUE), "z", TRUE)

activateRoot(s) ==
    LET s1 == ownActivate(s, "root", TRUE)
    IN  IF s1.coll["root"].isUndef THEN s1
        ELSE activateN(leafActivate(s1, "x", TRUE))

\* subscribe(fn) of the root: the value aggregators subscribe to the
\* children and hand their first value to ownSpecable.set, then the status
\* aggregators subscribe.
treeSubscribe(s) ==
    LET s1 == [s EXCEPT !.subscribed = TRUE]
    IN  statusRun(readerCycle(rootChildPublished(ownSetN(s1, derivedN(s1)))))

LeafValues == {"a", "b"}
RootArgs == {UndefRoot, ObjRoot("b", ObjN("a", "b"))}
NArgs == {UndefN, ObjN("b", "a")}

InitContext ==
    /\ \E kind \in Kinds, relPath \in Paths : tree = treeSpecable(kind, relPath)
    /\ onSubmit = FALSE
    /\ node = predSpecable(Undef, FALSE, FALSE, FALSE, FALSE, Toks)
    /\ act = IdleAct
    /\ sub = IdleSub
    /\ op = Op("new")
    /\ NoColl
    /\ NoList
    /\ NoForm
    /\ NoLib
    /\ NoAgg
    /\ NoFold
    /\ NoPass

\* A step ends with the status aggregators settled; after getFrom threw
\* nothing more is followed.
CommitTree(name, s) ==
    /\ ~tree.threw
    /\ tree' = statusRun(s)
    /\ op' = Op(name)
    /\ UNCHANGED <<node, onSubmit, act, sub, world, cact, csub, list, form, lib, agg, fold, pass>>

TreeSubscribe ==
    /\ ~tree.subscribed
    /\ IF tree.kind = "pred"
       THEN CommitTree("subscribe", [tree EXCEPT !.subscribed = TRUE])
       ELSE CommitTree("subscribe", treeSubscribe(tree))

\* activate() of the root, or of the node on its own
TreeActivate ==
    /\ tree.subscribed
    /\ IF tree.kind = "pred"
       THEN CommitTree("activate", readerCycle([tree EXCEPT !.pred.active = TRUE]))
       ELSE CommitTree("activate", activateRoot(tree))

\* set(v) of the node on its own
PredSet(v) ==
    /\ tree.subscribed
    /\ tree.kind = "pred"
    /\ tree.pred.value # v
    /\ CommitTree("set", readerCycle([tree EXCEPT !.pred.value = v]))

\* set(v) of a child
LeafSet(k, v) ==
    /\ tree.subscribed
    /\ tree.kind # "pred"
    /\ CommitTree(IF k = tree.kind THEN "set" ELSE "set-other", leafSet(tree, k, v))

\* set(coll) of the root and of n
RootSet(coll) ==
    /\ tree.subscribed
    /\ tree.kind # "pred"
    /\ CommitTree("set-other", setValueRoot(tree, coll))

NSet(coll) ==
    /\ tree.subscribed
    /\ tree.kind # "pred"
    /\ CommitTree("set-other", setValueN(tree, coll))

NextContext ==
    \/ TreeSubscribe
    \/ TreeActivate
    \/ \E v \in LeafValues : PredSet(v)
    \/ \E k \in Leaves, v \in LeafValues : LeafSet(k, v)
    \/ \E coll \in RootArgs : RootSet(coll)
    \/ \E coll \in NArgs : NSet(coll)

SpecContext == InitContext /\ [][NextContext]_vars

----------------------------------------------------------------------------
(* The adapter and the node constructors: configure(specmaFns),            *)
(* ensureConfigured() and the dispatch of specable(initialValue, options). *)
(* An adapter argument is undefined (missing) or an object, known by the   *)
(* required names it holds a function for and by an identity.  A value, a  *)
(* spec or a fields option is known by its shape, the answer of typeOf, or *)
(* "store" for a value that has a subscribe function.                      *)
(* The record lib:                                                         *)
(*   specma      the module's `specma`                                     *)
(*   prev        `specma` before the latest call (history)                 *)
(*   call        the latest call and its arguments (history)               *)
(*   res         what it returned: "undefined", the kind of node built,    *)
(*               "same" for the argument itself, or "TypeError"            *)

REQUIRED_SPECMA_FNS ==
    {"and", "getMessage", "getPred", "getSpread", "isOpt", "validatePred"}

NoSpecma == [missing |-> TRUE, fns |-> {}, id |-> 0]

Adapter(fns, id) == [missing |-> FALSE, fns |-> fns, id |-> id]

AdapterIds == {1, 2}

\* The arguments tried: nothing, an empty object, an adapter lacking one
\* function, a whole adapter.
AdapterArgs ==
    {NoSpecma}
      \cup {Adapter(fns, id) : fns \in {{}, REQUIRED_SPECMA_FNS}
                                         \cup {REQUIRED_SPECMA_FNS \ {k} : k \in REQUIRED_SPECMA_FNS},
                               id \in AdapterIds}

configureThrows(specmaFns) ==
    \/ specmaFns.missing
    \/ \E key \in REQUIRED_SPECMA_FNS : key \notin specmaFns.fns

\* Variant: the argument is stored before it is checked.
configureStoreFirst(specma, specmaFns) ==
    [specma |-> specmaFns,
     res |-> IF configureThrows(specmaFns) THEN "TypeError" ELSE "undefined"]

configure(specma, specmaFns) ==
    IF configureThrows(specmaFns)
    THEN [specma |-> specma, res |-> "TypeError"]
    ELSE [specma |-> specmaFns, res |-> "undefined"]

ensureConfiguredThrows(specma) == specma.missing

ValueShapes == {"undefined", "string", "date", "array", "map", "object", "store"}
SpecShapes == {"none", "function", "array", "map", "object"}
FieldsShapes == {"none", "number", "function", "array", "map", "object"}

isColl(shape) == shape \in {"array", "map", "object"}

isStore(shape) == shape = "store"

\* a || b on shapes: an option that was not given is undefined
Truthy(shape) == shape \notin {"none", "undefined"}

\* Variant: the spec's shape first, then the initial value's or the fields'.
collCandidateSpecFirst(initialValue, spec, fields) ==
    IF Truthy(spec) THEN spec
    ELSE IF isColl(initialValue) THEN initialValue
    ELSE fields

collCandidate(initialValue, spec, fields) ==
    IF Truthy(fields) THEN fields
    ELSE IF Truthy(spec) THEN spec
    ELSE initialValue

libPredSpecable(specma) ==
    IF ensureConfiguredThrows(specma) THEN "TypeError" ELSE "pred"

libCollSpecable(specma) ==
    IF ensureConfiguredThrows(specma) THEN "TypeError" ELSE "coll"

specable(specma, initialValue, spec, fields) ==
    IF isStore(initialValue) THEN "same"
    ELSE IF isColl(collCandidate(initialValue, spec, fields)) THEN libCollSpecable(specma)
    ELSE libPredSpecable(specma)

NoCall == [fn |-> "none", x |-> NoSpecma, v |-> "undefined", spec |-> "none", fields |-> "none"]

InitLib ==
    /\ lib = [specma |-> NoSpecma, prev |-> NoSpecma, call |-> NoCall, res |-> "undefined"]
    /\ onSubmit = FALSE
    /\ node = predSpecable(Undef, FALSE, FALSE, FALSE, FALSE, Toks)
    /\ act = IdleAct
    /\ sub = IdleSub
    /\ op = Op("new")
    /\ NoColl
    /\ NoList
    /\ NoForm
    /\ NoTree
    /\ NoAgg
    /\ NoFold
    /\ NoPass

CommitLib(call, specma, res) ==
    /\ lib' = [specma |-> specma, prev |-> lib.specma, call |-> call, res |-> res]
    /\ UNCHANGED <<node, onSubmit, act, sub, op, world, cact, csub, list, form, tree, agg, fold, pass>>

Configure(x) ==
    LET r == configure(lib.specma, x)
    IN  CommitLib([NoCall EXCEPT !.fn = "configure", !.x = x], r.specma, r.res)

NewPredSpecable ==
    CommitLib([NoCall EXCEPT !.fn = "predSpecable"], lib.specma, libPredSpecable(lib.specma))

NewCollSpecable ==
    CommitLib([NoCall EXCEPT !.fn = "collSpecable"], lib.specma, libCollSpecable(lib.specma))

NewSpecable(v, spec, fields) ==
    CommitLib([NoCall EXCEPT !.fn = "specable", !.v = v, !.spec = spec, !.fields = fields],
              lib.specma, specable(lib.specma, v, spec, fields))

NextLib ==
    \/ \E x \in AdapterArgs : Configure(x)
    \/ NewPredSpecable
    \/ NewCollSpecable
    \/ \E v \in ValueShapes, spec \in SpecShapes, fields \in FieldsShapes :
          NewSpecable(v, spec, fields)

SpecLib == InitLib /\ [][NextLib]_vars

----------------------------------------------------------------------------
(* The dynamic aggregator flexDerived over writable sources, with the      *)
(* combine function `identity`: specification SpecAgg.  A writable source  *)
(* calls a subscriber's invalidate and run callbacks together, so that     *)
(* `pending` is 0 whenever sync is reached.  The aggregator is a record:   *)
(*   stores       the value of $stores, the tracked list                   *)
(*   ord          _stores                                                  *)
(*   n            the subscribers of the aggregator                        *)
(*   initialized  initialized (false while no subscriber)                  *)
(*   unsubs       the stores whose entry of `unsubs` holds a function      *)
(*   has, values  the keys of the Map `values` and its entries             *)
(*   src          the value each source holds                              *)
(*   cnt          the subscriptions each source has                        *)
(*   out          the value the aggregator published last                  *)
(*   calls        the invocations of the combine function by the latest    *)
(*                call: the values received, each with the source it       *)
(*                is the value of (history)                                *)
(*   stopped, started   the sources unsubscribed from, and subscribed to,  *)
(*                by the latest call (history)                             *)
(*   h            the tracked list before the latest call (history)        *)
(*   pending      the bits of `pending` that are set, bit i for the i-th   *)
(*                position of a list                                       *)
(*   idx          for each source subscribed to, the position i that its   *)
(*                callbacks have captured                                  *)
(*   fly          the sources that reported an in-flight state to the      *)
(*                aggregator's subscription and no value since             *)
(*   glitch       the latest call invoked the combine function while a     *)
(*                tracked source was in flight (history)                   *)
(* The callbacks of a subscription that was stopped are not called.        *)

\* Bounds: the length of a tracked list, the subscribers of the aggregator.
MaxList == 2

MaxSubs == 2

Srcs == {"p", "q", "r"}
SrcValues == {"a", "b"}

Range(seq) == {seq[i] : i \in DOMAIN seq}

StoreLists == UNION {[1 .. n -> Srcs] : n \in 0 .. MaxList}

flexDerived(initialStores) ==
    [stores |-> initialStores, ord |-> initialStores, n |-> 0,
     initialized |-> FALSE, unsubs |-> {}, has |-> {},
     values |-> [s \in Srcs |-> Undef],
     src |-> [s \in Srcs |-> "a"], cnt |-> [s \in Srcs |-> 0],
     out |-> <<>>, calls |-> <<>>, stopped |-> {}, started |-> {},
     h |-> <<>>,
     pending |-> {}, idx |-> [s \in Srcs |-> 0], fly |-> {}, glitch |-> FALSE]

\* sync: unless a bit of `pending` is set, fn is called on the values of
\* the stores of _stores that `values` has, and its result is published
sync(a) ==
    LET vals == SelectSeq(a.ord, LAMBDA st : st \in a.has)
        call == [i \in DOMAIN vals |-> [s |-> vals[i], v |-> a.values[vals[i]]]]
    IN  IF a.pending # {} THEN a
        ELSE [a EXCEPT !.calls = Append(@, call),
                       !.out = [i \in DOMAIN call |-> call[i].v],
                       !.glitch = @ \/ (a.fly \cap Range(a.stores) # {})]

\* The run callback of the subscription to a store: (value) => {...}
runCallback(a, store, v) ==
    LET a1 == [a EXCEPT !.values[store] = v, !.has = @ \cup {store},
                        !.pending = @ \ {a.idx[store]}]
    IN  IF a1.initialized THEN sync(a1) ELSE a1

\* The invalidate callback of the subscription to a store
invalidateCallback(a, store) == [a EXCEPT !.pending = @ \cup {a.idx[store]}]

\* store.subscribe(run, invalidate) at position i: run is called at once
\* with the value held, before the function to unsubscribe is stored
subscribeStore(a, store, i) ==
    LET a1 == [a EXCEPT !.cnt[store] = @ + 1, !.started = @ \cup {store},
                        !.idx[store] = i, !.fly = @ \ {store}]
    IN  [runCallback(a1, store, a.src[store]) EXCEPT !.unsubs = @ \cup {store}]

\* stores.forEach of the $stores.subscribe callback, from index i on
RECURSIVE forEachStore(_, _, _)
forEachStore(a, stores, i) ==
    IF i > Len(stores) THEN a
    ELSE LET a1 == [a EXCEPT !.ord = Append(@, stores[i])]
         IN  forEachStore(IF stores[i] \in a1.unsubs THEN a1
                          ELSE subscribeStore(a1, stores[i], i),
                          stores, i + 1)

updateValues(a, stores) ==
    [a EXCEPT !.has = Range(stores),
              !.values = [s \in Srcs |-> IF s \in a.has /\ s \in Range(stores)
                                         THEN @[s] ELSE Undef]]

\* The $stores.subscribe callback
storesCallback(a, stores) ==
    LET unused == stopUnusedSubs(a.unsubs, Range(stores))
        a1 == [a EXCEPT !.cnt = [s \in Srcs |-> IF s \in unused THEN @[s] - 1 ELSE @[s]],
                        !.idx = [s \in Srcs |-> IF s \in unused THEN 0 ELSE @[s]],
                        !.fly = @ \ unused,
                        !.stopped = @ \cup unused,
                        !.unsubs = updateUnsubs(@, Range(stores))]
        a2 == forEachStore([updateValues(a1, stores) EXCEPT !.ord = <<>>], stores, 1)
    IN  IF a2.initialized THEN sync(a2) ELSE a2

\* The start function of mainStore, run for the first subscriber
start(a) ==
    LET a1 == [a EXCEPT !.initialized = FALSE, !.unsubs = {}, !.has = {},
                        !.values = [s \in Srcs |-> Undef], !.pending = {}]
    IN  sync([storesCallback(a1, a.stores) EXCEPT !.initialized = TRUE])

\* Variant: the sources' subscriptions are left in place.
stopMainOnly(a) ==
    [a EXCEPT !.initialized = FALSE, !.unsubs = {}, !.has = {},
              !.values = [s \in Srcs |-> Undef],
              !.pending = {}, !.idx = [s \in Srcs |-> 0], !.fly = {}]

\* stop, run when the last subscriber leaves
stop(a) ==
    [a EXCEPT !.cnt = [s \in Srcs |-> IF s \in a.unsubs THEN @[s] - 1 ELSE @[s]],
              !.stopped = @ \cup a.unsubs,
              !.initialized = FALSE, !.unsubs = {}, !.has = {},
              !.values = [s \in Srcs |-> Undef],
              !.pending = {}, !.idx = [s \in Srcs |-> 0], !.fly = {}]

aggSubscribe(a) ==
    LET a1 == [a EXCEPT !.n = @ + 1] IN IF a.n = 0 THEN start(a1) ELSE a1

aggUnsubscribe(a) ==
    LET a1 == [a EXCEPT !.n = @ - 1] IN IF a.n = 1 THEN stop(a1) ELSE a1

\* $stores.set(newStores): an array never equals the one held
storesSet(a, newStores) ==
    LET a1 == [a EXCEPT !.stores = newStores]
    IN  IF a.n > 0 THEN storesCallback(a1, newStores) ELSE a1

\* $stores.update(fn), for the fn of UpdateFns
UpdateFns == {"reverse", "tail"}

applyFn(fn, prev) ==
    IF fn = "reverse" THEN [i \in DOMAIN prev |-> prev[Len(prev) + 1 - i]]
    ELSE IF prev = <<>> THEN prev ELSE Tail(prev)

storesUpdate(a, fn) == storesSet(a, applyFn(fn, a.stores))

exclude(a, stores) ==
    storesSet(a, SelectSeq(a.stores, LAMBDA st : st \notin Range(stores)))

include(a, stores) == storesSet(a, a.stores \o stores)

\* A source reports an in-flight state, and a value, to its subscribers
sourceInvalidate(a, store) ==
    IF a.cnt[store] = 0 THEN a
    ELSE invalidateCallback([a EXCEPT !.fly = @ \cup {store}], store)

sourceRun(a, store, v) ==
    LET a1 == [a EXCEPT !.src[store] = v, !.fly = @ \ {store}]
    IN  IF a.cnt[store] = 0 THEN a1 ELSE runCallback(a1, store, v)

\* set(v) on a writable source: both reports, one after the other
sourceSet(a, store, v) ==
    IF v = a.src[store] THEN a
    ELSE sourceRun(sourceInvalidate(a, store), store, v)

----------------------------------------------------------------------------
(* The aggregator's operations: specification SpecAgg.                     *)

\* The arguments of include and exclude: one or two stores
StoreArgs == UNION {[1 .. n -> Srcs] : n \in 1 .. 2}

InitAgg ==
    /\ \E initialStores \in StoreLists : agg = flexDerived(initialStores)
    /\ onSubmit = FALSE
    /\ node = predSpecable(Undef, FALSE, FALSE, FALSE, FALSE, Toks)
    /\ act = IdleAct
    /\ sub = IdleSub
    /\ op = Op("new")
    /\ NoColl
    /\ NoList
    /\ NoForm
    /\ NoTree
    /\ NoLib
    /\ NoFold
    /\ NoPass

CommitAgg(name, a) ==
    /\ Len(a.stores) <= MaxList
    /\ op' = Op(name)
    /\ agg' = [a EXCEPT !.h = agg.stores]
    /\ UNCHANGED <<node, onSubmit, act, sub, world, cact, csub, list, form, tree, lib, fold, pass>>

begunAgg(a) ==
    [a EXCEPT !.calls = <<>>, !.stopped = {}, !.started = {}, !.glitch = FALSE]

AggSubscribe ==
    /\ agg.n < MaxSubs
    /\ CommitAgg("subscribe", aggSubscribe(begunAgg(agg)))

AggUnsubscribe ==
    /\ agg.n > 0
    /\ CommitAgg("unsubscribe", aggUnsubscribe(begunAgg(agg)))

AggSet(newStores) ==
    /\ newStores \in StoreLists
    /\ CommitAgg("set", storesSet(begunAgg(agg), newStores))

AggUpdate(fn) ==
    /\ fn \in UpdateFns
    /\ CommitAgg("update", storesUpdate(begunAgg(agg), fn))

AggInclude(stores) ==
    /\ stores \in StoreArgs
    /\ CommitAgg("include", include(begunAgg(agg), stores))

AggExclude(stores) ==
    /\ stores \in StoreArgs
    /\ CommitAgg("exclude", exclude(begunAgg(agg), stores))

SourceSet(store, v) ==
    /\ store \in Srcs /\ v \in SrcValues
    /\ CommitAgg("source", sourceSet(begunAgg(agg), store, v))

NextAgg ==
    \/ AggSubscribe
    \/ AggUnsubscribe
    \/ \E newStores \in StoreLists : AggSet(newStores)
    \/ \E fn \in UpdateFns : AggUpdate(fn)
    \/ \E stores \in StoreArgs : AggInclude(stores)
    \/ \E stores \in StoreArgs : AggExclude(stores)
    \/ \E store \in Srcs, v \in SrcValues : SourceSet(store, v)

SpecAgg == InitAgg /\ [][NextAgg]_vars

----------------------------------------------------------------------------
(* The aggregator over sources that report an in-flight state some time    *)
(* before the value that ends it: specification SpecPending.               *)

SourceInvalidate(store) ==
    /\ store \in Srcs
    /\ store \notin agg.fly
    /\ agg.cnt[store] > 0
    /\ CommitAgg("invalidate", sourceInvalidate(begunAgg(agg), store))

SourceRun(store, v) ==
    /\ store \in agg.fly
    /\ v \in SrcValues
    /\ CommitAgg("run", sourceRun(begunAgg(agg), store, v))

NextPending ==
    \/ AggSubscribe
    \/ AggUnsubscribe
    \/ \E newStores \in StoreLists : AggSet(newStores)
    \/ \E store \in Srcs : SourceInvalidate(store)
    \/ \E store \in Srcs : SourceRun(store, "b")

SpecPending == InitAgg /\ [][NextPending]_vars

----------------------------------------------------------------------------
(* The status combiner as a function: specification SpecCombine.  Three    *)
(* constituent states are drawn, and the steps apply combineChildren to    *)
(* them in the two orders, in the two groupings, and as the reduce of the  *)
(* status aggregator over a reordered list.                                *)

Tris == {"true", "false", "null"}

Summaries == [active : Tris, changed : BOOLEAN, valid : Tris, validating : BOOLEAN]

\* Variant: the reduce keeps its first element.
reduceStatesFirst(states) == Head(states)

\* [$ownSpecable, ...$children].reduce(combineChildren): no initial value,
\* the first element starts the accumulator
reduceStates(states) == reduce(Head(states), Tail(states))

NoSummary == [none |-> TRUE]

InitCombine ==
    /\ \E a, b, c \in Summaries :
          fold = [s |-> <<a, b, c>>, step |-> "new", x |-> NoSummary, y |-> NoSummary]
    /\ onSubmit = FALSE
    /\ node = predSpecable(Undef, FALSE, FALSE, FALSE, FALSE, Toks)
    /\ act = IdleAct
    /\ sub = IdleSub
    /\ op = Op("new")
    /\ NoColl
    /\ NoList
    /\ NoForm
    /\ NoTree
    /\ NoLib
    /\ NoAgg
    /\ NoPass

CommitCombine(step, x, y) ==
    /\ fold' = [fold EXCEPT !.step = step, !.x = x, !.y = y]
    /\ UNCHANGED <<node, onSubmit, act, sub, op, world, cact, csub, list, form, tree,
                   lib, agg, pass>>

\* combineChildren(a, b) and combineChildren(b, a)
CombinePair ==
    CommitCombine("pair", combineChildren(fold.s[1], fold.s[2]),
                          combineChildren(fold.s[2], fold.s[1]))

\* combineChildren(combineChildren(a, b), c) and
\* combineChildren(a, combineChildren(b, c))
CombineGroup ==
    CommitCombine("group",
                  combineChildren(combineChildren(fold.s[1], fold.s[2]), fold.s[3]),
                  combineChildren(fold.s[1], combineChildren(fold.s[2], fold.s[3])))

\* the reduce over the list and over the list reordered
CombineReduce(order) ==
    CommitCombine("reduce", reduceStates(fold.s),
                  reduceStates([i \in DOMAIN order |-> fold.s[order[i]]]))

NextCombine ==
    \/ CombinePair
    \/ CombineGroup
    \/ \E order \in Orders(3) : CombineReduce(order)

SpecCombine == InitCombine /\ [][NextCombine]_vars

----------------------------------------------------------------------------
(* The notification pass: specification SpecPass.  One object collection   *)
(* over the children x and y with synchronous predicates, every store of   *)
(* it with its subscribers, and the queue through which Svelte's stores    *)
(* notify them: a store that is set marks its subscribers invalid, puts    *)
(* their callbacks with the new value at the end of the one queue, and     *)
(* runs the queue if it was empty.  A call made by the user is a sequence  *)
(* of store updates, each run until the queue is empty.                    *)
(* Child x is valid when it holds "a".  Child y, when `ctx` is set, reads  *)
(* getFrom("../x") in its predicate and is valid when it holds the same.   *)
(* The node is a record:                                                   *)
(*   ctx         the predicate of y reads getFrom("../x")                  *)
(*   subscribed  the collection has its subscriber fn                      *)
(*   order       the keys of childrenStores, in order                      *)
(*   node        the predicate nodes "_" (own), "x", "y": the input stores *)
(*               value and active, _initialValue, the derived store's      *)
(*               values / pending / published state, and whether it is     *)
(*               started                                                   *)
(*   collValue, isUndef   the collection's variables                       *)
(*   dv, st      the value and the status aggregator: the stores they are  *)
(*               subscribed to and the position each subscription was made *)
(*               at (idx), the values recorded, the positions marked       *)
(*               pending, the value published                              *)
(*   cx          the context of y: contextStores[relPath] exists           *)
(*               (tracked), the context aggregator subscribed to it        *)
(*               (started), its `value` property (curr) and its pending    *)
(*               mark                                                      *)
(*   q           the subscriber queue                                      *)
(*   h           of the latest call (history): whether a state was handed  *)
(*               to fn (told), whether one of them had a value that is not *)
(*               the composition of the child values in its details        *)
(*               (stale), the number of callbacks run, kept while the call *)
(*               runs (steps), whether the                                 *)
(*               bound was hit (ovf), whether a cycle of the own predicate *)
(*               ran on the inputs of the one before it (redundant),       *)
(*               whether the context store of y published (flow), and      *)
(*               whether ownSpecable.set then found the value it held      *)
(*               (round)                                                   *)

\* Bound: callbacks run by one call.
MaxSteps == 120

PassNodes == {Own} \cup Keys

passNode(v) ==
    [value |-> v, active |-> FALSE, initialValue |-> v,
     vals |-> [active |-> FALSE, value |-> v, context |-> Undef],
     pending |-> {}, state |-> NoState, started |-> FALSE]

NoCx == [tracked |-> FALSE, started |-> FALSE, curr |-> Undef, pending |-> FALSE]

NoPassHist ==
    [told |-> FALSE, stale |-> FALSE, steps |-> 0, ovf |-> FALSE, redundant |-> FALSE,
     flow |-> FALSE, round |-> FALSE]

passSpecable(initialValue, ctx) ==
    [ctx |-> ctx, subscribed |-> FALSE,
     order |-> KeySeq,
     node |-> [n \in PassNodes |->
                 passNode(IF n = Own THEN initialValue ELSE get(n, initialValue))],
     collValue |-> initialValue,
     isUndef |-> (initialValue = UndefColl),
     dv |-> [subs |-> {}, stores |-> <<>>, idx |-> [k \in Keys |-> 0], values |-> [k \in {} |-> NoState],
             pending |-> {}, out |-> UndefColl],
     st |-> [subs |-> {}, stores |-> <<>>, idx |-> [k \in PassNodes |-> 0], values |-> [k \in {} |-> NoState],
             pending |-> {}, out |-> NoState],
     cx |-> NoCx,
     q |-> <<>>,
     initialValue |-> initialValue,
     h |-> NoPassHist]

Entry(cb, n, i, v) == [cb |-> cb, n |-> n, i |-> i, v |-> v]

push(p, es) == [p EXCEPT !.q = @ \o es]

\* writable.set on an input store of node n: its one subscriber, the
\* node's derived store, is marked and queued.
inputSet(p, n, i, v) ==
    IF ~p.node[n].started THEN p
    ELSE push([p EXCEPT !.node[n].pending = @ \cup {i}], <<Entry("input", n, i, v)>>)

\* writable(false).set on active
passActiveSet(p, n, bool) ==
    IF bool = p.node[n].active THEN p
    ELSE inputSet([p EXCEPT !.node[n].active = bool], n, "active", bool)

\* Variant: a plain writable, which notifies on every set of an object.
passValueSetUngated(p, n, v) ==
    inputSet([p EXCEPT !.node[n].value = v], n, "value", v)

\* writableByValue.set on value
passValueSet(p, n, v) ==
    IF fastEquals(v, p.node[n].value) THEN p
    ELSE inputSet([p EXCEPT !.node[n].value = v], n, "value", v)

\* The derived store of node n publishes: its subscribers are the value
\* aggregator, then the status aggregator, and for the own predicate the
\* context store of y, which subscribed last.
passPublish(p, n, state) ==
    LET toDv == n \in p.dv.subs
        toSt == n \in p.st.subs
        toCx == n = Own /\ p.cx.started
        p1 == [p EXCEPT !.node[n].state = state,
                        !.dv.pending = IF toDv THEN @ \cup {p.dv.idx[n]} ELSE @,
                        !.st.pending = IF toSt THEN @ \cup {p.st.idx[n]} ELSE @,
                        !.cx.pending = IF toCx THEN TRUE ELSE @]
    IN  push(p1, (IF toDv THEN <<Entry("dv", n, "", state)>> ELSE <<>>)
                 \o (IF toSt THEN <<Entry("st", n, "", state)>> ELSE <<>>)
                 \o (IF toCx THEN <<Entry("cx", n, "", state)>> ELSE <<>>))

\* The predicates of the pass: x wants "a", y wants what it reads.
passPred(n, value, seen) ==
    CASE n = "x" -> value = "a"
      [] n = "y" -> value = seen
      [] OTHER -> TRUE

\* interpretState on a synchronous result
passState(nd, valid) ==
    [active |-> nd.vals.active,
     changed |-> nd.vals.value # nd.initialValue,
     valid |-> valid,
     validating |-> FALSE,
     initialValue |-> nd.initialValue,
     value |-> nd.vals.value]

\* addContext(relPath) in the first getFrom of y: the context store is
\* made and context.set(contextStores) queues the context aggregator's
\* callback on its list of stores.
passAddContext(p) ==
    push([p EXCEPT !.cx.tracked = TRUE], <<Entry("ycStores", "y", "", Undef)>>)

\* The callback of the derived store of node n: one evaluation cycle.
passCycle(p, n) ==
    LET nd == p.node[n]
        defined == IF n = Own THEN nd.vals.value # UndefColl ELSE nd.vals.value # Undef
        validates == nd.vals.active /\ defined
        reads == validates /\ n = "y" /\ p.ctx
        seen == IF ~reads THEN Undef
                ELSE IF p.cx.tracked THEN nd.vals.context
                ELSE get("x", p.node[Own].state.value)
        p1 == IF reads /\ ~p.cx.tracked THEN passAddContext(p) ELSE p
        valid == ~validates \/ passPred(n, nd.vals.value, seen)
    IN  passPublish(p1, n, passState(nd, valid))

\* The run callback of a derived store on one of its inputs
inputRun(p, n, i, v) ==
    LET p1 == [p EXCEPT !.node[n].vals[i] = v, !.node[n].pending = @ \ {i}]
        same == n = Own /\ p1.node[n].state # NoState
                /\ p1.node[n].vals.active = p1.node[n].state.active
                /\ p1.node[n].vals.value = p1.node[n].state.value
    IN  IF p1.node[n].pending # {} THEN p1
        ELSE passCycle([p1 EXCEPT !.h.redundant = @ \/ same], n)

\* The combine function of derivedValue over the stores listed so far
passDerivedValue(p) ==
    IF p.isUndef THEN UndefColl
    ELSE merge(p.collValue, [k \in Range(p.dv.stores) |-> p.dv.values[k].value])

\* sync() of the value aggregator: its subscriber hands the value to
\* ownSpecable.set; undefined after undefined is no change to the store
dvSync(p) ==
    IF p.dv.pending # {} THEN p
    ELSE LET v == passDerivedValue(p)
         IN  IF v = UndefColl /\ p.dv.out = UndefColl THEN p
             ELSE push([p EXCEPT !.dv.out = v], <<Entry("ownSet", Own, "", v)>>)

\* The combine function of status over the stores listed so far; unless
\* the combined active flag is false it calls ownSpecable.activate()
passStatus(p) ==
    LET own == p.st.values[Own]
        kids == p.st.stores
        c == IF p.isUndef THEN summary(own)
             ELSE reduce(summary(own), [i \in DOMAIN kids |-> summary(p.st.values[kids[i]])])
    IN  [active |-> c.active, changed |-> c.changed, valid |-> c.valid,
         validating |-> c.validating,
         initialValue |-> own.initialValue,
         value |-> own.value,
         details |-> [k \in {Own} \cup (IF p.isUndef THEN {} ELSE Range(kids)) |->
                         p.st.values[k]]]

\* sync() of the status aggregator: its subscriber is fn
stSync(p) ==
    IF p.st.pending # {} THEN p
    ELSE LET state == passStatus(p)
             p1 == IF state.active # "false" THEN passActiveSet(p, Own, TRUE) ELSE p
         IN  push([p1 EXCEPT !.st.out = state], <<Entry("fn", Own, "", state)>>)

aggSync(p, a) == IF a = "dv" THEN dvSync(p) ELSE stSync(p)

\* The run callback of an aggregator's subscription to the store of n
aggRun(p, a, n, v) ==
    aggSync([p EXCEPT ![a].values = [j \in DOMAIN @ \cup {n} |-> IF j = n THEN v ELSE @[j]],
                      ![a].pending = @ \ {p[a].idx[n]}], a)

\* A store gets its first subscriber: the derived store starts with a
\* cycle on the inputs. Every node starts inactive.
startNode(p, n) ==
    IF p.node[n].started THEN p
    ELSE LET nd == [p.node[n] EXCEPT
                       !.started = TRUE, !.pending = {},
                       !.vals = [active |-> p.node[n].active, value |-> p.node[n].value,
                                 context |-> Undef]]
         IN  [p EXCEPT !.node[n] = [nd EXCEPT !.state = passState(nd, TRUE)]]

\* The position of store i of the list among the aggregator's stores:
\* status lists submitting and the own predicate before the children
pos(a, i) == IF a = "dv" THEN i ELSE i + 2

\* stores.forEach of the aggregator's callback on its list of stores
RECURSIVE aggEach(_, _, _, _)
aggEach(p, a, stores, i) ==
    IF i > Len(stores) THEN p
    ELSE LET k == stores[i]
             p1 == [p EXCEPT ![a].stores = SubSeq(stores, 1, i)]
             p2 == startNode(p1, k)
             p3 == [p2 EXCEPT
                      ![a].subs = @ \cup {k},
                      ![a].idx[k] = pos(a, i),
                      ![a].values = [j \in DOMAIN @ \cup {k} |->
                                        IF j = k THEN p2.node[k].state ELSE @[j]],
                      ![a].pending = @ \ {pos(a, i)}]
         IN  aggEach(IF k \in p[a].subs THEN p1 ELSE aggSync(p3, a), a, stores, i + 1)

\* The last subscriber of a child's store left: the store stops, and with
\* it its context. The collection holds the node no more.
stopNode(p, n) ==
    IF n \in p.dv.subs \cup p.st.subs THEN p
    ELSE [p EXCEPT !.node[n] = passNode(Undef),
                   !.cx = IF n = "y" THEN NoCx ELSE @]

RECURSIVE stopNodes(_, _)
stopNodes(p, ns) ==
    IF ns = {} THEN p
    ELSE LET n == CHOOSE x \in ns : TRUE IN stopNodes(stopNode(p, n), ns \ {n})

\* The aggregator's callback on a new list of stores
aggStoresRun(p, a, stores) ==
    LET unused == (p[a].subs \cap Keys) \ Range(stores)
        p1 == [p EXCEPT ![a].subs = @ \ unused,
                        ![a].values = [j \in (DOMAIN @ \ Keys) \cup Range(stores) |->
                                          IF j \in DOMAIN @ THEN @[j] ELSE NoState]]
    IN  aggSync(aggEach(stopNodes(p1, unused), a, stores, 1), a)

\* The callback of the context store of y on a state of the own predicate
cxRun(p, v) ==
    LET next == get("x", v.value)
        p1 == [p EXCEPT !.cx.pending = FALSE]
    IN  IF v.value = UndefColl \/ p.cx.curr = next THEN p1
        ELSE push([p1 EXCEPT !.cx.curr = next, !.h.flow = TRUE],
                  <<Entry("yc", "y", "", next)>>)

\* The context aggregator of y publishes: the derived store of y is its
\* subscriber
ycPublish(p, v) == inputSet(p, "y", "context", v)

\* The context aggregator's callback on contextStores: it subscribes to
\* the context store, which starts on the own predicate's state, and
\* publishes on the subscription and once more after the list.
ycStoresRun(p) ==
    LET v == p.node[Own].state.value
        next == IF v = UndefColl THEN p.cx.curr ELSE get("x", v)
    IN  ycPublish(ycPublish([p EXCEPT !.cx.started = TRUE, !.cx.curr = next], next), next)

\* The value of a published state is the composition of the child values
\* in its details.
Composed(state) ==
    \A k \in DOMAIN state.details \ {Own} :
        state.value # UndefColl /\ get(k, state.value) = state.details[k].value

\* fn(state)
fnRun(p, v) == [p EXCEPT !.h.told = TRUE, !.h.stale = @ \/ ~Composed(v)]

\* (value) => ownSpecable.set(value), the value aggregator's subscriber
ownSetRun(p, v) ==
    passValueSet([p EXCEPT !.h.round = @ \/ (p.h.flow /\ fastEquals(v, p.node[Own].value))],
                 Own, v)

runEntry(p, e) ==
    CASE e.cb = "input" -> inputRun(p, e.n, e.i, e.v)
      [] e.cb = "dv" -> aggRun(p, "dv", e.n, e.v)
      [] e.cb = "st" -> aggRun(p, "st", e.n, e.v)
      [] e.cb = "ownSet" -> ownSetRun(p, e.v)
      [] e.cb = "fn" -> fnRun(p, e.v)
      [] e.cb = "cx" -> cxRun(p, e.v)
      [] e.cb = "yc" -> ycPublish(p, e.v)
      [] e.cb = "ycStores" -> ycStoresRun(p)
      [] e.cb = "dvStores" -> aggStoresRun(p, "dv", e.v)
      [] e.cb = "stStores" -> aggStoresRun(p, "st", e.v)

\* The loop of the store that found the queue empty: callbacks are run in
\* the order they were queued, those queued on the way included.
RECURSIVE settle(_)
settle(p) ==
    IF p.q = <<>> THEN p
    ELSE IF p.h.steps >= MaxSteps THEN [p EXCEPT !.h.ovf = TRUE, !.q = <<>>]
    ELSE settle(runEntry([p EXCEPT !.q = Tail(@), !.h.steps = @ + 1], Head(p.q)))

\* subscribe(fn): the value aggregator starts on the children and hands
\* its value to ownSpecable.set, then the status aggregator starts on the
\* own predicate and the children and hands its state to fn.
RECURSIVE startNodes(_, _)
startNodes(p, ns) ==
    IF ns = {} THEN p
    ELSE LET n == CHOOSE x \in ns : TRUE IN startNodes(startNode(p, n), ns \ {n})

passSubscribe(p) ==
    LET p1 == startNodes(p, Range(p.order))
        p2 == [p1 EXCEPT
                 !.subscribed = TRUE,
                 !.dv = [subs |-> Range(p.order), stores |-> p.order,
                         idx |-> [k \in Keys |->
                                    IF \E i \in DOMAIN p.order : p.order[i] = k
                                    THEN CHOOSE i \in DOMAIN p.order : p.order[i] = k ELSE 0],
                         values |-> [k \in Range(p.order) |-> p1.node[k].state],
                         pending |-> {}, out |-> UndefColl]]
        v == passDerivedValue(p2)
        p3 == startNode(passValueSet([p2 EXCEPT !.dv.out = v], Own, v), Own)
        p4 == [p3 EXCEPT
                 !.st = [subs |-> {Own} \cup Range(p.order), stores |-> p.order,
                         idx |-> [k \in PassNodes |->
                                    IF k = Own THEN 2 ELSE p2.dv.idx[k] + 2],
                         values |-> [k \in {Own} \cup Range(p.order) |-> p3.node[k].state],
                         pending |-> {}, out |-> NoState]]
    IN  settle(stSync(p4))

\* mainStore.set(newValue, shouldActivate) of a predicate node
passNodeSet(p, n, v, shouldActivate) ==
    LET p1 == settle(passValueSet(p, n, v))
    IN  IF shouldActivate THEN settle(passActiveSet(p1, n, TRUE)) ELSE p1

\* mainStore.reset(newValue = _initialValue) of a predicate node
passNodeReset(p, n, arg) ==
    LET missing == IF n = Own THEN arg = UndefColl ELSE arg = Undef
        newValue == IF missing THEN p.node[n].initialValue ELSE arg
        p1 == [p EXCEPT !.node[n].initialValue = newValue]
    IN  settle(passValueSet(settle(passActiveSet(p1, n, FALSE)), n, newValue))

\* childrenEntries.forEach of setValue
RECURSIVE passSetChildren(_, _, _, _, _)
passSetChildren(p, c, partial, reset, ks) ==
    IF ks = <<>> THEN p
    ELSE LET key == Head(ks)
             newValue == get(key, c)
             p1 == IF partial /\ newValue = Undef THEN p
                   ELSE IF reset THEN passNodeReset(p, key, newValue)
                   ELSE passNodeSet(p, key, newValue, partial)
         IN  passSetChildren(p1, c, partial, reset, Tail(ks))

\* setValue(coll, {partial, reset}) on the collection without spread
passSetValue(p, c, partial, reset) ==
    LET collValue == IF ~reset /\ partial THEN merge(p.collValue, c) ELSE c
        p1 == [p EXCEPT !.collValue = collValue, !.isUndef = (collValue = UndefColl)]
        p2 == IF reset THEN passNodeReset(p1, Own, collValue)
              ELSE passNodeSet(p1, Own, collValue, FALSE)
    IN  passSetChildren(p2, c, partial, reset, p.order)

\* activate(bool), the synchronous part: active.set on each store
RECURSIVE passActivateStores(_, _, _)
passActivateStores(p, bool, ns) ==
    IF ns = <<>> THEN p
    ELSE passActivateStores(settle(passActiveSet(p, Head(ns), bool)), bool, Tail(ns))

passActivate(p, bool) ==
    passActivateStores(p, bool, <<Own>> \o (IF p.isUndef THEN <<>> ELSE p.order))

passSet(p, c, partial, shouldActivate) ==
    LET p1 == passSetValue(p, c, partial, FALSE)
    IN  IF shouldActivate THEN passActivate(p1, TRUE) ELSE p1

\* reset(newInitialValue = initialValue)
passReset(p, arg) ==
    passActivate(passSetValue(p, IF arg = UndefColl THEN p.initialValue ELSE arg,
                              FALSE, TRUE), FALSE)

\* setChildrenStores: derivedValue.set, then status.set
passSetChildrenStores(p, stores) ==
    LET p1 == settle(push([p EXCEPT !.order = stores],
                          <<Entry("dvStores", Own, "", stores)>>))
    IN  settle(push(p1, <<Entry("stStores", Own, "", stores)>>))

\* update(fn), fn reordering the children
passUpdate(p, order) == passSetChildrenStores(p, [i \in DOMAIN order |-> p.order[order[i]]])

\* remove(idsToRemove); the id of a child of an object is its key
passRemove(p, ids) ==
    IF ids = {} THEN p
    ELSE passSetChildrenStores(p, SelectSeq(p.order, LAMBDA k : k \notin ids))

\* add(coll), coll holding key y
passAdd(p, c) ==
    LET p1 == [p EXCEPT !.isUndef = FALSE, !.node["y"] = passNode(c["y"])]
    IN  passSetChildrenStores(p1, Append(p.order, "y"))

PassArgs == {UndefColl, [x |-> "b", y |-> "b"], [y |-> "a"]}

InitPass ==
    /\ \E iv \in InitColls, ctx \in BOOLEAN : pass = passSpecable(iv, ctx)
    /\ onSubmit = FALSE
    /\ node = predSpecable(Undef, FALSE, FALSE, FALSE, FALSE, Toks)
    /\ act = IdleAct
    /\ sub = IdleSub
    /\ op = Op("new")
    /\ NoColl
    /\ NoList
    /\ NoForm
    /\ NoTree
    /\ NoLib
    /\ NoAgg
    /\ NoFold

CommitPass(name, p) ==
    /\ ~pass.h.ovf
    /\ op' = Op(name)
    /\ pass' = [p EXCEPT !.h.steps = 0]
    /\ UNCHANGED <<node, onSubmit, act, sub, world, cact, csub, list, form, tree,
                   lib, agg, fold>>

begunPass(p) == [p EXCEPT !.h = NoPassHist]

PassSubscribe ==
    /\ ~pass.subscribed
    /\ CommitPass("subscribe", passSubscribe(begunPass(pass)))

\* set(v) on a child held
PassKidSet(k, v) ==
    /\ pass.subscribed
    /\ k \in Range(pass.order)
    /\ CommitPass("kid", passNodeSet(begunPass(pass), k, v, FALSE))

PassSet(c, partial, shouldActivate) ==
    /\ pass.subscribed
    /\ ~(partial /\ c = UndefColl /\ pass.collValue = UndefColl)
    /\ CommitPass("set", passSet(begunPass(pass), c, partial, shouldActivate))

PassActivate(bool) ==
    /\ pass.subscribed
    /\ CommitPass("activate", passActivate(begunPass(pass), bool))

PassReset(arg) ==
    /\ pass.subscribed
    /\ CommitPass("reset", passReset(begunPass(pass), arg))

PassUpdate(order) ==
    /\ pass.subscribed
    /\ order \in Orders(Len(pass.order))
    /\ CommitPass("update", passUpdate(begunPass(pass), order))

PassRemove(ids) ==
    /\ pass.subscribed
    /\ CommitPass("remove", passRemove(begunPass(pass), ids))

PassAdd(c) ==
    /\ pass.subscribed
    /\ "y" \notin Range(pass.order)
    /\ CommitPass("add", passAdd(begunPass(pass), c))

NextPass ==
    \/ PassSubscribe
    \/ \E k \in Keys, v \in KidValues : PassKidSet(k, v)
    \/ \E c \in PassArgs, partial \in BOOLEAN, sa \in BOOLEAN : PassSet(c, partial, sa)
    \/ \E b \in BOOLEAN : PassActivate(b)
    \/ \E arg \in {UndefColl, [x |-> "b", y |-> "a"]} : PassReset(arg)
    \/ \E n \in 0 .. 2 : \E order \in Orders(n) : PassUpdate(order)
    \/ \E ids \in {{}, {"y"}} : PassRemove(ids)
    \/ PassAdd([y |-> "b"])

SpecPass == InitPass /\ [][NextPass]_vars

----------------------------------------------------------------------------
(* Claims about the predicate node.                                        *)

\* The node's inputs call for a validation of its value.
Validated(n) == n.active /\ (n.value # Undef \/ n.required)

AwaitingCurrent(n) == n.currPromise.kind = "async"

\* C1: on a validated, subscribed node with an asynchronous predicate, the
\* published state is always the one of the latest value set: pending while
\* the latest validation is unresolved, and that validation's result once it
\* resolved, whatever older validations resolve before or after it.
C1_LatestResultWins ==
    (node.subscribed /\ node.isAsync /\ Validated(node)) =>
        node.state = interpretState(node, baseArgs(node),
                        IF AwaitingCurrent(node) THEN Pending
                        ELSE Terminal(ownSpec(node, node.value)))

\* "b" was set after "a"; b's validation resolved and is published while
\* a's validation is still to resolve.
C1_Witness ==
    /\ node.subscribed /\ node.active /\ node.isAsync /\ node.value = "b"
    /\ node.currPromise.kind = "sync" /\ node.invoked
    /\ \E t \in Toks : node.toks[t] = [st |-> "pending", v |-> "a"]
    /\ node.state.value = "b" /\ node.state.error = <<"invalid", "b">>

\* Whenever state s calls for a validation of v (s is active and v is not
\* undefined, or the node is required), the valid/error/validating fields of
\* s are those of a validation of v, pending or settled.
ResultFields(r) ==
    <<r.valid = "true", IF r.valid = "false" THEN r.reason ELSE NoError, r.valid = "null">>

Paired(n, s, v) ==
    LET validated == s.active /\ (~isUndefined(n, v) \/ n.required)
        o == IF n.required /\ isMissing(n, v) THEN reqSpec(n, v) ELSE pred(n, v)
        allowed == IF o.user /\ n.isAsync THEN {Pending, Terminal(o)}
                   ELSE {Terminal(o)}
    IN  validated =>
            <<s.valid, s.error, s.validating>> \in {ResultFields(r) : r \in allowed}

\* C2 as stated: the result fields of every published state are those of
\* a validation of the value that state carries.
C2_ResultOfCarriedValue ==
    node.subscribed => Paired(node, node.state, node.state.value)

\* C2 amended: the result fields of every published state are those of a
\* validation of the value the node held in that evaluation cycle; the state
\* carries that value when changePred reports it changed, and the initial
\* value otherwise (the same value under the default changePred).
C2_ResultOfValidatedValue ==
    node.subscribed =>
        /\ Paired(node, node.state, node.args.value)
        /\ node.state.value = IF node.state.changed THEN node.args.value
                              ELSE node.state.initialValue
        /\ ~node.custom => node.state.value = node.args.value

\* A state published by the resolution of an asynchronous validation.
C2_Witness ==
    /\ node.subscribed /\ node.isAsync /\ op.name = "step"
    /\ node.currPromise.kind = "sync" /\ node.invoked
    /\ node.notes = 1
    /\ node.state.value = "b" /\ node.state.error = <<"invalid", "b">>

\* C3: right after reset(v) or reset() on a subscribed node the published
\* state has changed = false and active = false.
C3_ResetUnchangedInactive ==
    (op.name = "reset" /\ node.subscribed) =>
        (~node.state.changed /\ ~node.state.active)

\* C4: on a required node whose value is undefined, null or "", the
\* validation is invalid with the 'isRequired' message, the user predicate is
\* not invoked, and activate(true) resolves false.
C4_RequiredMissing ==
    (node.subscribed /\ node.required /\ node.active /\ isMissing(node, node.value)) =>
        /\ node.state.error = <<"isRequired">>
        /\ ~node.state.valid /\ ~node.state.validating
        /\ ~node.invoked
        /\ node.currPromise = SyncPromise(FALSE)
        /\ (op.name = "return" /\ act.cur) => ~act.res

C4_Witness ==
    /\ node.subscribed /\ node.required /\ node.isAsync
    /\ node.active /\ node.value = Null
    /\ op.name = "return" /\ act.cur /\ ~act.res
    /\ node.state.error = <<"isRequired">>

\* C5: on a node that is not required and whose value is undefined, the
\* published state is valid without error, the user predicate is not
\* invoked, and activate(true) resolves true.
C5_OptionalUndefined ==
    (node.subscribed /\ ~node.required /\ node.value = Undef) =>
        /\ node.state.valid /\ node.state.error = NoError /\ ~node.state.validating
        /\ ~node.invoked
        /\ node.currPromise = SyncPromise(TRUE)
        /\ (op.name = "return" /\ act.cur) => act.res

C5_Witness ==
    /\ node.subscribed /\ ~node.required /\ node.isAsync
    /\ node.active /\ node.value = Undef
    /\ op.name = "return" /\ act.cur /\ act.res
    /\ node.state.active /\ node.state.valid

\* C6: set(x) on the value container stores x, and notifies (one evaluation
\* cycle, one published state) iff x is not deep-equal to the stored value;
\* so a second set of a deep-equal value right after it publishes nothing.
C6_EqualityGate ==
    (op.name = "set" /\ node.subscribed) =>
        /\ node.value = op.arg
        /\ node.notes = (IF op.same THEN 0 ELSE 1)
        /\ valueSet(begin(node), op.arg).notes = 0

\* set("b") on a subscribed node that already holds "b" published nothing.
C6_Witness ==
    /\ node.subscribed /\ op.name = "set" /\ op.same /\ op.arg = "b"
    /\ node.notes = 0 /\ node.state.value = "b"

SubmitInProgress == sub.pc \in {"tick", "await", "ret", "handler"}

\* C7: submit() with a handler activates the node; the handler is invoked,
\* with the current value, iff the awaited validation was valid; the
\* published submitting flag is true only while the call is in progress and
\* is false once it completed, whether the handler succeeded, validation was
\* invalid, or the handler failed (the error reaches the caller with the
\* flag already reset).
C7_SubmitFlag ==
    /\ (op.name = "submit" /\ onSubmit) => (node.active /\ node.submitting)
    /\ (node.subscribed /\ node.state.submitting) => SubmitInProgress
    /\ sub.pc = "done" => (~node.submitting /\ (node.subscribed => ~node.state.submitting))
    /\ sub.pc \in {"handler", "done"} => (sub.called <=> sub.valid)
    /\ (op.name = "invoke") => (sub.valid /\ sub.arg = node.value)
    /\ (sub.pc = "done" /\ sub.called) => sub.res \in {"true", "error"}

\* The handler was invoked and failed; the flag is down.
C7_Witness ==
    /\ node.subscribed /\ onSubmit
    /\ sub.pc = "done" /\ sub.called /\ sub.res = "error"
    /\ ~node.state.submitting

----------------------------------------------------------------------------
(* Claims about the collection node.                                       *)

\* C8: submit() on a collection node invokes the handler iff the activation
\* of the whole collection resolved valid, and once submit() has completed,
\* in every outcome (the handler failing included), the submitting flag and
\* the published submitting field are false.
C8_CollSubmitFlag ==
    /\ csub.pc \in {"handler", "done"} => (csub.called <=> csub.valid)
    /\ csub.pc = "done" => (~world.submitting /\ ~world.state.submitting)

\* C9: submit() on a collection node with a handler resolves false when the
\* validation was invalid and true when it was valid and the handler
\* completed; without a handler it resolves undefined.
C9_CollSubmitResolves ==
    (csub.pc = "done" /\ csub.res # "error") =>
        csub.res = IF ~onSubmit THEN "undefined"
                   ELSE IF csub.valid THEN "true" ELSE "false"

\* C10 as stated: activate(true) on a subscribed collection activates its
\* own predicate and every current child.
C10_ActivatesEveryConstituent ==
    op.name = "activate(true)" =>
        (world.own.active /\ \A k \in Keys : world.kids[k].active)

\* C10 amended: activate(true) on a subscribed collection activates the own
\* predicate and, unless the collection's value is undefined, every child,
\* and awaits exactly the activations of those; its promise resolves true
\* iff every awaited activation resolved valid, and false once one of them
\* resolved invalid, the others resolved or not.
C10_ActivateAll ==
    /\ op.name = "activate(true)" =>
          /\ world.own.active
          /\ ~world.isUndef => \A k \in Keys : world.kids[k].active
          /\ DOMAIN cact.ps = IF world.isUndef THEN {Own} ELSE StoreIds
    /\ op.name = "creturn" =>
          /\ cact.res <=> \A i \in DOMAIN cact.ps : cact.ps[i] = SyncPromise(TRUE)
          /\ ~cact.res => \E i \in DOMAIN cact.ps : cact.ps[i] = SyncPromise(FALSE)

\* activate(true) resolved false on child "y" being invalid while the
\* validation of child "x" is still pending.
C10_Witness ==
    /\ op.name = "creturn" /\ ~cact.res /\ cact.owner = "user"
    /\ DOMAIN cact.ps = StoreIds
    /\ cact.ps["y"] = SyncPromise(FALSE) /\ cact.ps["x"].kind = "async"
    /\ ~world.isUndef /\ world.own.active /\ world.own.state.valid
    /\ world.kids["y"].active /\ ~world.kids["y"].state.valid
    /\ world.kids["x"].active /\ world.kids["x"].state.validating

\* C11: activate(false) on a subscribed collection whose own predicate and
\* children were all active leaves the own predicate and every child
\* inactive, and the collection publishes active = false.
C11_DeactivateAll ==
    (op.name = "activate(false)" /\ op.pre) =>
        /\ \A i \in StoreIds : ~storeOf(world, i).active
        /\ world.state.active = "false"

----------------------------------------------------------------------------
(* Claims about the array collection node.                                 *)

\* The latest call was set(coll, true): a partial set.
PartialSet == op.name = "set" /\ list.h.partial

\* The children the call found kept their values but for those whose key
\* coll has with a value other than undefined, which took that value.
ValueFrame ==
    \A i \in DOMAIN list.h.kids :
        list.kids[i].value =
            IF arrGet(i, list.h.arg) # Undef THEN arrGet(i, list.h.arg)
            ELSE list.h.kids[i].value

\* C12 as stated: set(coll, true) leaves the children mapping unchanged (no
\* child added, none removed, same order) and changes the value only of
\* children whose key is present in coll with a value other than undefined.
C12_PartialSetKeepsMapping ==
    PartialSet => (idsOf(list.kids) = idsOf(list.h.kids) /\ ValueFrame)

\* C12 amended: set(coll, true) removes no child and keeps the children's
\* order; on a collection with spread children it appends one child for
\* each key of coll not yet tracked, holding coll's value at that key; it
\* changes the value only of children whose key is present in coll with a
\* value other than undefined.
C12_PartialSetAddsOnly ==
    PartialSet =>
        /\ Len(list.kids) >= Len(list.h.kids)
        /\ SubSeq(idsOf(list.kids), 1, Len(list.h.kids)) = idsOf(list.h.kids)
        /\ DOMAIN list.kids = DOMAIN list.h.kids \cup arrKeys(list.h.arg)
        /\ \A i \in DOMAIN list.kids \ DOMAIN list.h.kids :
              list.kids[i].value = arrGet(i, list.h.arg)
        /\ ValueFrame

\* A partial set changed the first child's value and appended a child.
C12_Witness ==
    /\ PartialSet
    /\ Len(list.h.kids) = 1 /\ Len(list.kids) = 2
    /\ list.kids[1].value # list.h.kids[1].value

\* The latest call was set(coll): a full set.
FullSet == op.name = "set" /\ ~list.h.partial

\* The items the children held before the call differ from one another,
\* so that no two items of the collection had the same id.
DistinctBefore ==
    \A i, j \in DOMAIN list.h.kids :
        i # j => list.h.kids[i].value # list.h.kids[j].value

\* C13: on a collection with spread children, after set(coll) in full mode
\* the key set of the children mapping equals the key set of coll: the
\* children whose key coll has stay, a child is created for each key of coll
\* not yet tracked, and the children whose key coll lacks are removed.
\* (Stated for a collection whose items were distinct before the call.)
C13_FullSetKeys ==
    (FullSet /\ DistinctBefore) =>
        /\ DOMAIN list.kids = arrKeys(list.h.arg)
        /\ \A i \in DOMAIN list.kids \cap DOMAIN list.h.kids :
              list.kids[i].id = list.h.kids[i].id

\* The latest two calls were add(coll), which created children, and
\* remove of exactly their ids, on a subscribed collection that published
\* the array of its children's values; the items held before and the items
\* added all differ.
AddThenRemove ==
    /\ op.name = "add-remove"
    /\ list.subscribed
    /\ list.h.basePub = Arr([i \in DOMAIN list.h.base |-> list.h.base[i].value])
    /\ \A i, j \in DOMAIN list.h.base :
          i # j => list.h.base[i].value # list.h.base[j].value
    /\ \A i \in DOMAIN list.h.base, j \in DOMAIN list.h.arg.items :
          list.h.base[i].value # list.h.arg.items[j]

\* C14: on a subscribed collection, add(coll) creating a child whose id is x
\* followed by remove([x]) leaves the children mapping with the same child
\* ids in the same order as before the add and the published value as
\* before the add, and no aggregator of the collection stays subscribed to
\* the removed child: a later change of that child notifies no subscriber
\* of the collection.
C14_AddRemoveRoundTrip ==
    /\ AddThenRemove =>
          /\ idsOf(list.kids) = idsOf(list.h.base)
          /\ listPub(list) = list.h.basePub
          /\ list.h.ids \cap (list.vsubs \cup list.ssubs) = {}
    /\ op.name = "gone" => ~list.notified

\* remove(ids) was the latest call.
Removed == op.name \in {"remove", "add-remove"}

\* C15: remove(ids) removes exactly the current children whose id is in ids,
\* whatever their position; every other child stays as the same node with
\* unchanged state and in the same relative order, and the aggregators of a
\* subscribed collection are subscribed to exactly the children that stay.
\* With ids empty or matching no child nothing changes.
C15_RemoveById ==
    Removed =>
        /\ list.kids = SelectSeq(list.h.kids, LAMBDA k : k.id \notin list.h.ids)
        /\ list.gone = SelectSeq(list.h.kids, LAMBDA k : k.id \in list.h.ids)
        /\ list.h.ids \cap idSet(list.h.kids) = {} => list.kids = list.h.kids
        /\ list.subscribed =>
              (list.vsubs = idSet(list.kids) /\ list.ssubs = idSet(list.kids))

\* remove dropped the first of two children of a subscribed collection by
\* an id that is not its position; the second, active, stayed.
C15_Witness ==
    /\ Removed /\ list.subscribed
    /\ Len(list.h.kids) = 2 /\ Len(list.kids) = 1
    /\ list.kids[1] = list.h.kids[2] /\ list.kids[1].active
    /\ list.h.kids[1].id # 1

----------------------------------------------------------------------------
(* Claims about the errors of a collection.                                *)

\* The chain of ids from the root to a node.
PathTo(n) ==
    CASE n = "root" -> <<>>
      [] n = "field" -> <<form.field>>
      [] n = "n" -> <<"n">>
      [] n = "inner" -> <<"n", form.inner>>

\* C16: in every state a collection publishes, `errors` has one entry per
\* node of the tree whose own error is truthy, the root included, and the
\* entry's path is the chain of ids from the root to that node, `which`
\* being the path joined with dots, whatever the children are named.
\* (Stated for the trees in which no child is named "_".)
C16_ErrorsMatchNodes ==
    (form.subscribed /\ form.field # Own /\ form.inner # Own) =>
        /\ Len(form.state.errors) = Cardinality(form.failing)
        /\ \A n \in form.failing :
              \E i \in DOMAIN form.state.errors :
                  /\ form.state.errors[i].path = PathTo(n)
                  /\ form.state.errors[i].which = join(PathTo(n))

\* The states the status aggregator combines: the own predicate's and,
\* unless the collection's value is undefined, every child's.
Constituents(w) == IF w.isUndef THEN {Own} ELSE StoreIds

Aggregates(w, cs, validNull) ==
    LET st(i) == storeOf(w, i).state
        someValidating == \E i \in cs : st(i).validating
    IN  /\ w.state.active = IF \A i \in cs : st(i).active THEN "true"
                            ELSE IF \A i \in cs : ~st(i).active THEN "false"
                            ELSE "null"
        /\ w.state.changed = (\E i \in cs : st(i).changed)
        /\ w.state.validating = someValidating
        /\ w.state.valid = IF someValidating /\ validNull THEN "null"
                           ELSE Tri(~someValidating /\ \A i \in cs : st(i).valid)

\* C17 (as stated): every published collection state aggregates the own
\* predicate's state and every child's state: active is true (false) iff
\* all are active (inactive) and null otherwise, changed iff one changed,
\* validating iff one is validating, valid true iff all are valid and none
\* is validating and false otherwise.
C17_AggregateAll ==
    world.subscribed => Aggregates(world, StoreIds, FALSE)

\* C17 (amended): the published state aggregates the own predicate's state
\* and, unless the collection's value is undefined, every child's state;
\* active, changed and validating are as stated, and valid is null while a
\* constituent is validating, else true iff every constituent is valid.
C17_AggregateDefined ==
    world.subscribed => Aggregates(world, Constituents(world), TRUE)

C17_Witness ==
    /\ world.subscribed
    /\ ~world.isUndef
    /\ world.state.valid = "null"
    /\ world.state.changed
    /\ \E k \in Keys : world.kids[k].state.validating

\* C18: on a subscribed collection whose value is not undefined, after
\* set(v) on a child the value the collection publishes has v, the value
\* that child now holds, at the child's key.
C18_ChildSetReflected ==
    (op.name = "kid" /\ list.subscribed /\ ~list.isUndef) =>
        /\ ~listPub(list).undef
        /\ list.h.at \in DOMAIN listPub(list).items
        /\ listPub(list).items[list.h.at] = list.kids[list.h.at].value

\* The path asks for an ancestor the reader does not have.
MissingAncestor ==
    \/ level(tree.kind) = 0
    \/ countPathAncestors(tree.relPath) > level(tree.kind)

Called == tree.threw \/ tree.invoked

\* C19: when a predicate calls getFrom(relPath) and the path asks for an
\* ancestor that does not exist, the call does not throw and returns
\* undefined.
C19_MissingAncestorUndefined ==
    (tree.subscribed /\ MissingAncestor /\ Called) =>
        (~tree.threw /\ tree.seen = Undef)

\* The value at relPath under the ancestor that getFrom resolved.
ValueAtPath ==
    getPath(keepForwardPath(tree.relPath), ancestorOf(tree), ancestorValue(tree))

\* C20: an active child of a subscribed collection whose predicate has
\* read getFrom(relPath), and whose value calls for its predicate, has
\* had its predicate invoked with the value now at relPath under the
\* resolved ancestor.
C20_ContextFollowsAncestor ==
    (/\ tree.subscribed
     /\ tree.kind \in {"x", "y"}
     /\ tree.tracked
     /\ readerActive(tree) /\ readerDefined(tree)) =>
        (tree.invoked /\ tree.seen = ValueAtPath)

Constructed ==
    /\ lib.call.fn \in {"predSpecable", "collSpecable", "specable"}
    /\ ~(lib.call.fn = "specable" /\ isStore(lib.call.v))

LacksFunction(x) == x.missing \/ x.fns # REQUIRED_SPECMA_FNS

\* C21: constructing a node while no adapter is configured throws a
\* TypeError; configure(x) throws a TypeError when x is missing or lacks a
\* required function, and then leaves `specma` as it was.
C21_ConfigureGuards ==
    /\ (Constructed /\ lib.prev = NoSpecma) => lib.res = "TypeError"
    /\ (lib.call.fn = "configure" /\ LacksFunction(lib.call.x)) =>
           (lib.res = "TypeError" /\ lib.specma = lib.prev)
    /\ lib.specma # NoSpecma => lib.specma.fns = REQUIRED_SPECMA_FNS

C21_Witness ==
    /\ lib.call.fn = "configure"
    /\ lib.call.x.id = 2 /\ lib.call.x.fns = REQUIRED_SPECMA_FNS \ {"isOpt"}
    /\ lib.res = "TypeError"
    /\ lib.specma = Adapter(REQUIRED_SPECMA_FNS, 1)

\* C22: in every state a predicate node publishes, an inactive node is
\* valid, not validating and without error; a validating node is not
\* valid and without error; a valid node is without error.
C22_StateConsistent ==
    node.subscribed =>
        /\ ~node.state.active =>
              (node.state.valid /\ ~node.state.validating /\ node.state.error = NoError)
        /\ node.state.validating =>
              (~node.state.valid /\ node.state.error = NoError)
        /\ node.state.valid => node.state.error = NoError

C22_Witness ==
    /\ node.subscribed
    /\ node.state.validating
    /\ node.required /\ node.value = "b"
    /\ op.name = "step"

\* C23: the promise returned by activate(bool) never rejects, whatever the
\* state of the node: with or without subscribers, active or not, its
\* validation synchronous or pending.
C23_ActivateNeverRejects == act.pc # "failed"

\* C24: when the promise of an activate(true) called on a subscribed node
\* resolves, no validation of the node is pending and the boolean is the
\* `valid` field of the state the node publishes at that moment, also when
\* set() was called while the activation's validation was pending.  Stated
\* for the activations that awaited an asynchronous validation.
C24_ActivateResolvesSettled ==
    (op.name = "return" /\ act.wait) =>
        /\ ~node.state.validating
        /\ act.res = node.state.valid

\* C25: update(fn) with an fn that reorders the children keeps each child
\* the same node with its id and its state, stops and starts no
\* subscription to a child, and on a subscribed collection the published
\* value lists the children's values in the new order.
Reordered == op.name = "update" /\ list.kids # list.h.kids

C25_UpdateReorders ==
    Reordered =>
        /\ Len(list.kids) = Len(list.h.kids)
        /\ \A i \in DOMAIN list.kids : \E j \in DOMAIN list.h.kids : list.kids[i] = list.h.kids[j]
        /\ list.stopped = {} /\ list.started = {}
        /\ list.subscribed =>
              listPub(list) = Arr([i \in DOMAIN list.kids |-> list.kids[i].value])

\* C25, amended: the published value follows the new order on a subscribed
\* collection whose value is not undefined; while it is undefined the
\* published value stays undefined.
C25_UpdateReordersDefined ==
    Reordered =>
        /\ Len(list.kids) = Len(list.h.kids)
        /\ \A i \in DOMAIN list.kids : \E j \in DOMAIN list.h.kids : list.kids[i] = list.h.kids[j]
        /\ list.stopped = {} /\ list.started = {}
        /\ list.subscribed =>
              listPub(list) = IF list.isUndef THEN UndefArr
                              ELSE Arr([i \in DOMAIN list.kids |-> list.kids[i].value])

C25_Witness ==
    /\ Reordered
    /\ list.subscribed
    /\ listPub(list) = Arr(<<"b", "a">>)
    /\ list.h.pub = Arr(<<"a", "b">>)

\* C26: while the value a subscribed collection publishes is undefined, its
\* published active, changed, valid and validating are the own predicate's
\* alone and details (hence errors) has no child entry, and activate(bool)
\* activates the own predicate and no child; once add(coll) or set(coll)
\* with a defined coll has ended that, the published state aggregates every
\* child again, and activate(bool) reaches every child.
PublishedUndefined(w) == w.subscribed /\ w.state.value = UndefColl

ActivateCalled(o) == o.name \in {"activate(true)", "activate(false)"}

C26_UndefinedIgnoresChildren ==
    /\ [](PublishedUndefined(world) =>
            (world.isUndef /\ Aggregates(world, {Own}, TRUE) /\ world.state.details = {Own}))
    /\ [][/\ (ActivateCalled(op') /\ PublishedUndefined(world)) =>
              /\ \A k \in Keys : world'.kids[k].active = world.kids[k].active
              /\ world'.own.active = (op'.name = "activate(true)")
              /\ DOMAIN cact'.ps = {Own}
          /\ (ActivateCalled(op') /\ world.subscribed /\ ~PublishedUndefined(world)) =>
              /\ \A k \in Keys : world'.kids[k].active = (op'.name = "activate(true)")
              /\ DOMAIN cact'.ps = StoreIds
          /\ (PublishedUndefined(world) /\ ~PublishedUndefined(world')) =>
              /\ ~world'.isUndef
              /\ Aggregates(world', StoreIds, TRUE)
              /\ world'.state.details = StoreIds]_vars

C26_Witness ==
    /\ op.name = "add"
    /\ world.subscribed /\ ~world.isUndef
    /\ world.state.details = StoreIds
    /\ world.own.state.initialValue = UndefColl
    /\ world.state.value = [x |-> Undef, y |-> "b"]

\* C27 (as stated): specable(v, options) returns v when v is a validator
\* node; otherwise, the library being configured, it builds a collection
\* node if the declared spec or, when no spec is declared, the initial
\* value or the declared fields is array-, map- or object-shaped, and a
\* predicate node otherwise.
SpecableCalled == lib.call.fn = "specable"

Dispatched(toColl) ==
    SpecableCalled =>
        IF isStore(lib.call.v) THEN lib.res = "same"
        ELSE lib.prev # NoSpecma => lib.res = IF toColl THEN "coll" ELSE "pred"

ListChanged == op.name \in {"set", "update", "include", "exclude"} /\ agg.n > 0

C28_SubscriptionsFollowList ==
    ListChanged =>
        /\ \A s \in Srcs : agg.cnt[s] = IF s \in Range(agg.stores) THEN 1 ELSE 0
        /\ agg.unsubs = Range(agg.stores)
        /\ \A s \in Range(agg.stores) \cap Range(agg.h) :
              /\ s \notin agg.stopped \cup agg.started
              /\ s \in agg.has /\ agg.values[s] = agg.src[s]

C28_Witness ==
    /\ ListChanged
    /\ op.name = "set"
    /\ agg.h = <<"p", "q">> /\ agg.stores = <<"r", "p">>
    /\ agg.stopped = {"q"} /\ agg.started = {"r"}
    /\ agg.src["p"] = "b" /\ agg.values["p"] = "b"

\* C29: the aggregator holds a subscription on a source only while it has
\* a subscriber: none while it has no subscriber, whatever is set then; the
\* first subscribe subscribes to every source of the current list and
\* computes a value from them; the last unsubscribe releases every
\* subscription, those on sources that set() brought while subscribed too.
C29_SubscribedWhileObserved ==
    /\ agg.n = 0 => \A s \in Srcs : agg.cnt[s] = 0
    /\ agg.n > 0 => \A s \in Srcs : agg.cnt[s] = IF s \in Range(agg.stores) THEN 1 ELSE 0
    /\ (op.name = "subscribe" /\ agg.n = 1) =>
          /\ agg.started = Range(agg.stores)
          /\ Len(agg.calls) = 1
          /\ agg.out = [i \in DOMAIN agg.stores |-> agg.src[agg.stores[i]]]
    /\ (op.name = "unsubscribe" /\ agg.n = 0) => agg.stopped = Range(agg.stores)

C29_Witness ==
    /\ op.name = "unsubscribe" /\ agg.n = 0
    /\ agg.stores = <<"r", "p">>
    /\ agg.stopped = {"r", "p"}
    /\ \A s \in Srcs : agg.cnt[s] = 0

\* C30: every invocation of the combine function receives the values of
\* the sources of the tracked list, position by position: the i-th value
\* is the value of the i-th source of the list.  Stated for the lists that
\* name no source twice.
NoRepeat(seq) == \A i, j \in DOMAIN seq : seq[i] = seq[j] => i = j

C31_NoRunWhilePending == ~agg.glitch

\* C32: after set(newSources) on a subscribed aggregator no invocation of
\* the combine function receives values for part of the new list only:
\* each receives one value per tracked source, and the value at a position
\* (the key under which the collection aggregator over an array files it)
\* is that of the source listed at that position.
C32_ReplacementAtomic ==
    (op.name = "set" /\ agg.n > 0) =>
        \A c \in DOMAIN agg.calls :
            /\ Len(agg.calls[c]) = Len(agg.stores)
            /\ \A i \in DOMAIN agg.calls[c] :
                  i \in DOMAIN agg.stores /\ agg.calls[c][i].s = agg.stores[i]

Produced(s) == s.valid = "null" => s.validating

HandedValid ==
    LET n == [node EXCEPT !.active = TRUE, !.value = sub.arg]
    IN  shouldValidate(n) => ownSpec(n, sub.arg).valid

\* C36: the value handed to the submit handler is one for which validation
\* returned valid, also when set(b) is called while the activation of
\* submit() awaits the asynchronous validation of an earlier value.
C36_HandlerGetsValidated ==
    (op.name = "invoke" /\ sub.wait) => HandedValid

\* What an inactive node publishes: valid, not validating, no error, and
\* the value and initial value it holds.
PublishedInactive(n) ==
    /\ ~n.state.active /\ n.state.valid /\ ~n.state.validating
    /\ n.state.error = NoError
    /\ n.state.initialValue = n.initialValue
    /\ n.state.value = IF changePred(n, n.value, n.initialValue)
                       THEN n.value ELSE n.initialValue

\* C37: an asynchronous validation that resolves while its node is
\* inactive, after activate(false) or reset, leaves the published state as
\* it was: inactive, valid, not validating, without error, with the value
\* and initial value the later operation set.
C37_LateResolutionIgnored ==
    [][(/\ node.subscribed /\ ~node.active
        /\ \E t \in Toks : node.toks[t].st = "pending" /\ node'.toks[t].st = "free")
       => (node'.state = node.state /\ PublishedInactive(node'))]_vars

\* The part of C37 about the resolution alone: the step of a late
\* resolution leaves the published state as it was.
LateResolutionLeavesState ==
    [][(/\ node.subscribed /\ ~node.active
        /\ \E t \in Toks : node.toks[t].st = "pending" /\ node'.toks[t].st = "free")
       => node'.state = node.state]_vars

\* C38: after any sequence of add, set, remove and update calls on a
\* collection the ids of its current children are pairwise distinct, with
\* default ids and with a getId that reads the id off the child's initial
\* value.
C38_DistinctIds ==
    op.name \in {"add", "set", "remove", "add-remove", "update"} =>
        \A i, j \in DOMAIN list.kids : list.kids[i].id = list.kids[j].id => i = j

\* C39: add(coll) only appends: every child held before the call is held
\* after it, the same node in the same state under the same key, also
\* when coll has a key that a child held already has.
C39_AddOnlyAppends ==
    [][op'.name = "add" =>
          \A k \in Keys : begin(world'.kids[k]) = begin(world.kids[k])]_vars

\* C40: set(coll, true) changes values only: the active flag of the own
\* predicate and of every child, given a value by coll or not, is after
\* the call what it was before it.
C40_PartialSetKeepsActive ==
    [][(\E c \in CollArgs : CollSet(c, TRUE, FALSE)) =>
          /\ world'.own.active = world.own.active
          /\ \A k \in Keys : world'.kids[k].active = world.kids[k].active]_vars

\* C34: every state a subscribed collection hands to its subscriber has
\* the value composed of the child values recorded in its details (no
\* constituent is validating: the predicates are synchronous); none joins
\* a child's new value with the collection's previous value.
C34_PublishedFromOnePass == ~pass.h.stale

\* C35: with synchronous predicates every call on a subscribed tree, one
\* with a getFrom reference included, sets off a bounded cascade of
\* notifications that leaves no callback queued, and the own predicate
\* never runs again on the inputs of its previous cycle: a value that
\* comes back unchanged stops at ownSpecable.set.
C35_CascadeEnds ==
    /\ ~pass.h.ovf
    /\ pass.q = <<>>
    /\ ~pass.h.redundant

C35_Witness ==
    /\ pass.ctx /\ op.name = "kid"
    /\ pass.h.flow /\ pass.h.round
    /\ pass.node["y"].state.active /\ ~pass.node["y"].state.valid

====
